---- MODULE Spec2Model ----
(***************************************************************************)
(* Verification model of the Slack sidebar organiser (organize.ts).        *)
(*                                                                         *)
(* Three parts share one state:                                            *)
(*   - RateLimiter (organize.ts:178-203) with concurrent wait() callers,   *)
(*     specification SpecRL;                                               *)
(*   - the distributor distributeMovesAcrossSections, specification        *)
(*     SpecDist;                                                           *)
(*   - main() (organize.ts:406-805): load rules, plan, distribute,         *)
(*     execute through the limiter, specifications SpecPlan and Spec;      *)
(*     SpecOrg plans with skip_if_organized and mute-only rules, SpecMatch *)
(*     plans one rule of any variant against one name.                     *)
(*   - the helpers on their own: the pattern miner (SpecMine), the         *)
(*     overflow resolver (SpecOverflow), the rule suggestions of a run     *)
(*     without rules (SpecSuggest), and the limiter under a fair clock     *)
(*     (SpecRLFair).                                                       *)
(*                                                                         *)
(* Time is a discrete clock `now` (Date.now()).  A setTimeout callback     *)
(* runs at its due instant: the clock does not pass a due timer, but any   *)
(* other caller may still run first within that instant.                   *)
(***************************************************************************)
EXTENDS Integers, Sequences, FiniteSets, TLC

(***************************************************************************)
(* Bounds of the model.                                                    *)
(***************************************************************************)
NumCallers == 3     \* concurrent wait() callers of one RateLimiter
MaxLimit == 2       \* largest `limit` a limiter is constructed with
MaxInterval == 3    \* largest `intervalMs` a limiter is constructed with
MaxTime == 7        \* the clock stops advancing here
MaxCandidates == 3  \* candidate buckets handed to the distributor
MaxBatch == 3       \* Moves in one batch handed to the distributor
MaxRules == 2       \* rules in a rules file
MaxNameLen == 2     \* length of an enumerated channel name
ExecLimit == 2      \* stands for the executor's limit of 20 (organize.ts:724)
ExecIntervalMs == 2 \* stands for the executor's 60000 ms (organize.ts:724)
MaxMineLen == 5     \* length of the first name handed to the miner
MaxOtherLen == 2    \* length of the further names handed to the miner
MaxNames == 2       \* names in one list handed to the miner
MaxGroup == 6       \* channels in one group of like-named channels
MaxSections == 3    \* sections handed to the overflow resolver

Callers == 1..NumCallers
None == -1          \* "no value yet" in the bookkeeping below

VARIABLES
    \* ---- RateLimiter ----
    now,            \* Date.now()
    limit,          \* RateLimiter.limit
    intervalMs,     \* RateLimiter.intervalMs
    timestamps,     \* RateLimiter.timestamps
    waiter,         \* per caller: position inside wait() and bookkeeping
    admitLog,       \* every timestamp ever pushed, in push order
    callOrder,      \* callers in the order they called wait()
    \* ---- main() ----
    pc,             \* position of main()
    writeChanges,   \* args.includes('--write')
    sidebarRulesRaw,\* the parsed rules file
    sidebarSections,\* the section snapshot
    sidebarRules,   \* the constructed rules
    channels,       \* Map id -> channel, in insertion order
    plannedMoves,   \* the Moves as the planner emitted them
    sidebarMoves,   \* the Move list (rewritten in place by the distributor)
    moveIdx,        \* index of the executor's current Move
    successfulMoves,
    errors,
    apiLog,         \* limiter admissions and relocation calls, in order
    fatal,          \* what the run printed when it halted on its rules file
    proposedRules,  \* the rule suggestions main() printed
    returned        \* what the helper called on its own returned

rlVars == <<now, limit, intervalMs, timestamps, waiter, admitLog, callOrder>>

mainVars == <<pc, writeChanges, sidebarRulesRaw, sidebarSections, sidebarRules,
              channels, plannedMoves, sidebarMoves, moveIdx, successfulMoves,
              errors, apiLog, fatal, proposedRules, returned>>

vars == <<now, limit, intervalMs, timestamps, waiter, admitLog, callOrder,
          pc, writeChanges, sidebarRulesRaw, sidebarSections, sidebarRules,
          channels, plannedMoves, sidebarMoves, moveIdx, successfulMoves,
          errors, apiLog, fatal, proposedRules, returned>>

(***************************************************************************)
(* Strings are sequences of one-character strings.                         *)
(***************************************************************************)
DigitChars == <<"0", "1", "2", "3", "4", "5", "6", "7", "8", "9">>

\* The decimal digit for 0..9.
DigitChar(k) == DigitChars[k + 1]

Max(a, b) == IF a >= b THEN a ELSE b

(***************************************************************************)
(* RateLimiter                                                             *)
(***************************************************************************)

\* Mutation of Prune: a timestamp exactly intervalMs old is still retained.
PruneInclusive(ts, t, iv) == SelectSeq(ts, LAMBDA x : t - x <= iv)

\* this.timestamps.filter(t => now - t < this.intervalMs)
Prune(ts, t, iv) == SelectSeq(ts, LAMBDA x : t - x < iv)

\* Mutation of Full: the limiter suspends only above the limit.
FullAboveLimit(ts, lim) == Len(ts) > lim

\* this.timestamps.length >= this.limit
Full(ts, lim) == Len(ts) >= lim

\* Mutation of WaitTime: the sleep ends one millisecond early.
WaitTimeEarly(ts, t, iv) == ts[1] + iv - t - 1

\* Mutation of WaitTime: waits for the newest timestamp to expire.
WaitTimeNewest(ts, t, iv) == ts[Len(ts)] + iv - t

\* this.timestamps[0] + this.intervalMs - now
WaitTime(ts, t, iv) == ts[1] + iv - t

\* Mutation of Push: the new timestamp is put in front.
PushFront(ts, t) == <<t>> \o ts

\* this.timestamps.push(Date.now())
Push(ts, t) == Append(ts, t)

IdleWaiter ==
    [state |-> "idle", wakeAt |-> None, calledAt |-> None,
     admittedAt |-> None, firstWake |-> None, competed |-> FALSE]

\* The unexpired timestamps as the limiter's contract describes them,
\* written without the code's helpers (used by the bookkeeping only).
Unexpired == { i \in DOMAIN timestamps : now - timestamps[i] < intervalMs }
OldestUnexpired ==
    timestamps[CHOOSE i \in Unexpired : \A j \in Unexpired : i <= j]

\* Another caller is inside wait() (suspended) right now.
OthersSuspended(c) == { d \in Callers \ {c} : waiter[d].state = "sleeping" }

\* One evaluation of wait() by caller c, from its entry (or its recursive
\* re-entry after the sleep) to its first await or its return.
wait(c, isCall) ==
    LET pruned == Prune(timestamps, now, intervalMs)
        others == IF isCall THEN OthersSuspended(c) ELSE {}
        w0 == IF isCall
              THEN [waiter[c] EXCEPT !.calledAt = now,
                                     !.competed = (others # {})]
              ELSE waiter[c]
        mark(f) == [d \in Callers |->
                      IF d = c THEN f
                      ELSE IF d \in others
                           THEN [waiter[d] EXCEPT !.competed = TRUE]
                           ELSE waiter[d]]
    IN  IF Full(pruned, limit)
        THEN LET waitTime == WaitTime(pruned, now, intervalMs)
             IN  /\ timestamps' = pruned
                 /\ admitLog' = admitLog
                 /\ IF waitTime > 0
                    THEN \* await sleep(waitTime); return this.wait()
                         waiter' = mark([w0 EXCEPT
                            !.state = "sleeping",
                            !.wakeAt = now + waitTime,
                            !.firstWake = IF w0.firstWake = None
                                          THEN OldestUnexpired + intervalMs
                                          ELSE w0.firstWake])
                    ELSE \* return this.wait() with nothing awaited: the
                         \* same check again, without end (call stack
                         \* exhausted, the promise rejects)
                         waiter' = mark([w0 EXCEPT !.state = "rejected"])
        ELSE \* this.timestamps.push(Date.now())
             /\ timestamps' = Push(pruned, now)
             /\ admitLog' = Append(admitLog, now)
             /\ waiter' = mark([w0 EXCEPT !.state = "admitted",
                                          !.admittedAt = now])

\* A caller invokes limiter.wait().
Call(c) ==
    /\ waiter[c].state = "idle"
    /\ wait(c, TRUE)
    /\ callOrder' = Append(callOrder, c)
    /\ UNCHANGED <<now, limit, intervalMs>>
    /\ UNCHANGED mainVars

\* The sleep of a suspended caller ends and wait() re-evaluates.
Wake(c) ==
    /\ waiter[c].state = "sleeping"
    /\ now >= waiter[c].wakeAt
    /\ wait(c, FALSE)
    /\ UNCHANGED <<now, limit, intervalMs, callOrder>>
    /\ UNCHANGED mainVars

\* The clock advances one millisecond; due timers run first.
Tick ==
    /\ now < MaxTime
    /\ \A c \in Callers : waiter[c].state = "sleeping" => now < waiter[c].wakeAt
    /\ now' = now + 1
    /\ UNCHANGED <<limit, intervalMs, timestamps, waiter, admitLog, callOrder>>
    /\ UNCHANGED mainVars

\* A freshly constructed limiter: new RateLimiter(lim, iv).
NewLimiter(lim, iv) ==
    /\ now = 0
    /\ limit = lim
    /\ intervalMs = iv
    /\ timestamps = <<>>
    /\ waiter = [c \in Callers |-> IdleWaiter]
    /\ admitLog = <<>>
    /\ callOrder = <<>>

\* Nothing was printed about the rules file.
NoFatal == [message |-> "", type |-> "", sidebar_section |-> <<>>]

\* main() is not running.
NoMain ==
    /\ pc = "none"
    /\ writeChanges = FALSE
    /\ sidebarRulesRaw = <<>>
    /\ sidebarSections = <<>>
    /\ sidebarRules = <<>>
    /\ channels = <<>>
    /\ plannedMoves = <<>>
    /\ sidebarMoves = <<>>
    /\ moveIdx = 0
    /\ successfulMoves = <<>>
    /\ errors = <<>>
    /\ apiLog = <<>>
    /\ fatal = NoFatal
    /\ proposedRules = <<>>
    /\ returned = <<>>

InitRL ==
    /\ \E lim \in 1..MaxLimit : \E iv \in 1..MaxInterval : NewLimiter(lim, iv)
    /\ NoMain

NextRL ==
    \/ \E c \in Callers : Call(c)
    \/ \E c \in Callers : Wake(c)
    \/ Tick

SpecRL == InitRL /\ [][NextRL]_vars

\* The clock as the event loop sees it: it goes on for as long as a caller
\* sleeps (and, with nobody sleeping, for one longest interval), and a due
\* timer runs before the clock moves past it.
TickLive ==
    /\ \/ now < MaxInterval
       \/ \E c \in Callers : waiter[c].state = "sleeping"
    /\ \A c \in Callers : waiter[c].state = "sleeping" => now < waiter[c].wakeAt
    /\ now' = now + 1
    /\ UNCHANGED <<limit, intervalMs, timestamps, waiter, admitLog, callOrder>>
    /\ UNCHANGED mainVars

NextRLFair ==
    \/ \E c \in Callers : Call(c)
    \/ \E c \in Callers : Wake(c)
    \/ TickLive

\* Time passes and a timer that is due fires; nobody has to call wait().
SpecRLFair ==
    /\ InitRL
    /\ [][NextRLFair]_vars
    /\ WF_vars(TickLive)
    /\ \A c \in Callers : WF_vars(Wake(c))

(***************************************************************************)
(* Claims about the RateLimiter (checked under SpecRL)                     *)
(***************************************************************************)

\* Position of caller c in the order of wait() calls (0: has not called).
CallPos(c) ==
    IF \E i \in DOMAIN callOrder : callOrder[i] = c
    THEN CHOOSE i \in DOMAIN callOrder : callOrder[i] = c
    ELSE 0

\* C6: within any window [s, s + intervalMs) at most `limit` wait() calls
\* are admitted, whatever the interleaving of the callers.
C6_RateLimitBound ==
    \A i \in DOMAIN admitLog :
        Cardinality({ j \in DOMAIN admitLog :
                        /\ admitLog[i] <= admitLog[j]
                        /\ admitLog[j] < admitLog[i] + intervalMs }) <= limit

\* C6 witness: more calls than the limit were admitted, one of them after
\* having been suspended.
C6_Witness ==
    /\ Len(admitLog) > limit
    /\ \E c \in Callers : /\ waiter[c].state = "admitted"
                          /\ waiter[c].firstWake # None

\* C7: callers are admitted in the order in which they called wait(): no
\* caller that called later is admitted while an earlier caller is still
\* suspended.
C7_FifoAdmission ==
    \A c \in Callers : \A d \in Callers :
        ( /\ CallPos(d) > 0
          /\ CallPos(d) < CallPos(c)
          /\ waiter[c].state = "admitted" )
        => waiter[d].state # "sleeping"

\* Caller c runs one evaluation of wait() in this step.
Evaluates(c) ==
    \/ waiter[c].state = "idle" /\ waiter'[c].state # "idle"
    \/ /\ waiter[c].state = "sleeping"
       /\ \/ waiter'[c].state # "sleeping"
          \/ waiter'[c].wakeAt # waiter[c].wakeAt

\* C8: whenever wait() is evaluated while fewer than `limit` timestamps are
\* younger than intervalMs, the evaluation pushes one timestamp and returns
\* in the same instant, without suspending.
C8_ImmediateAdmission ==
    [][ \A c \in Callers :
          (Evaluates(c) /\ Cardinality(Unexpired) < limit)
          => /\ waiter'[c].state = "admitted"
             /\ waiter'[c].admittedAt = now
             /\ now' = now
             /\ Len(timestamps') = Cardinality(Unexpired) + 1
             /\ timestamps'[Len(timestamps')] = now
             /\ (waiter[c].state = "idle" => waiter'[c].calledAt = now) ]_vars

\* C8 witness: a call made after every earlier timestamp had expired was
\* admitted in the instant it was made.
C8_Witness ==
    /\ Len(admitLog) > limit
    /\ timestamps = <<now>>
    /\ \E c \in Callers : /\ waiter[c].state = "admitted"
                          /\ waiter[c].calledAt = now
                          /\ waiter[c].admittedAt = now
                          /\ waiter[c].firstWake = None
                          /\ now >= intervalMs
    /\ \A c \in Callers : waiter[c].firstWake = None

\* C9: a caller that found `limit` unexpired timestamps and had no one
\* competing is suspended until exactly oldest + intervalMs and admitted at
\* that instant.
C9_ReleaseTime ==
    \A c \in Callers :
        (waiter[c].firstWake # None /\ ~waiter[c].competed)
        => /\ waiter[c].state \in {"sleeping", "admitted"}
           /\ waiter[c].state = "sleeping"
                => /\ waiter[c].wakeAt = waiter[c].firstWake
                   /\ now <= waiter[c].firstWake
           /\ waiter[c].state = "admitted"
                => waiter[c].admittedAt = waiter[c].firstWake

\* C9 witness: RateLimiter(2, 3), two admissions at time 0, the third
\* caller, alone, was admitted at time 3.
C9_Witness ==
    /\ limit = 2
    /\ intervalMs = 3
    /\ admitLog = <<0, 0, 3>>
    /\ \E c \in Callers : /\ waiter[c].state = "admitted"
                          /\ ~waiter[c].competed
                          /\ waiter[c].calledAt = 0
                          /\ waiter[c].firstWake = 3
                          /\ waiter[c].admittedAt = 3

(***************************************************************************)
(* Buckets and the distributor                                             *)
(***************************************************************************)

\* SECTION_CHANNEL_LIMIT, the fixed capacity of a sidebar section.
SECTION_CHANNEL_LIMIT == 500

\* new Array(n).fill('ch'): n members that are no channel of the run.
Fill(n) == [i \in 1..n |-> <<"c", "h">>]

\* new SidebarSection(id, name, channelIds)
SidebarSection(id, name, channelIds) ==
    [id |-> id, name |-> name, channelIds |-> channelIds]

\* Mutation of includesChannel: only the first member is looked at.
includesFirstChannel(s, channelId) ==
    s.channelIds # <<>> /\ s.channelIds[1] = channelId

\* SidebarSection.includesChannel: this.channelIds.includes(channelId)
includesChannel(s, channelId) ==
    \E i \in DOMAIN s.channelIds : s.channelIds[i] = channelId

\* Mutation of availableCapacity: the difference is not clamped at zero.
availableCapacityUnclamped(s) == SECTION_CHANNEL_LIMIT - Len(s.channelIds)

\* SidebarSection.availableCapacity
availableCapacity(s) == Max(0, SECTION_CHANNEL_LIMIT - Len(s.channelIds))

\* Mutation of HasRoom: a bucket with no capacity left still takes a Move.
HasRoomInclusive(r) == r >= 0

\* The distributor's test for remaining capacity.
HasRoom(r) == r > 0

\* Mutation of FirstWithRoom: the last candidate with capacity is taken.
LastWithRoom(remaining) ==
    IF \E k \in DOMAIN remaining : HasRoom(remaining[k])
    THEN CHOOSE k \in DOMAIN remaining :
            /\ HasRoom(remaining[k])
            /\ \A j \in DOMAIN remaining : HasRoom(remaining[j]) => j <= k
    ELSE 0

\* Index of the first candidate with remaining capacity, 0 if there is none.
FirstWithRoom(remaining) ==
    IF \E k \in DOMAIN remaining : HasRoom(remaining[k])
    THEN CHOOSE k \in DOMAIN remaining :
            /\ HasRoom(remaining[k])
            /\ \A j \in DOMAIN remaining : HasRoom(remaining[j]) => k <= j
    ELSE 0

\* The distributor's loop from Move i on, with the running counters.
RECURSIVE DistributeFrom(_, _, _, _)
DistributeFrom(moves, sections, remaining, i) ==
    IF i > Len(moves)
    THEN moves
    ELSE LET k == FirstWithRoom(remaining)
         IN  IF k = 0
             THEN DistributeFrom(moves, sections, remaining, i + 1)
             ELSE DistributeFrom(
                    [moves EXCEPT ![i].toSidebarSectionId = sections[k].id],
                    sections,
                    [remaining EXCEPT ![k] = @ - 1],
                    i + 1)

\* Mutation of distributeMovesAcrossSections: a candidate that is the
\* Move's own source bucket is passed over.
RECURSIVE DistributeAvoidingSource(_, _, _, _)
DistributeAvoidingSource(moves, sections, remaining, i) ==
    IF i > Len(moves)
    THEN moves
    ELSE LET ok == { k \in DOMAIN remaining :
                        /\ HasRoom(remaining[k])
                        /\ sections[k].id # moves[i].fromSidebarSectionId }
         IN  IF ok = {}
             THEN DistributeAvoidingSource(moves, sections, remaining, i + 1)
             ELSE LET k == CHOOSE k \in ok : \A j \in ok : k <= j
                  IN  DistributeAvoidingSource(
                        [moves EXCEPT ![i].toSidebarSectionId = sections[k].id],
                        sections,
                        [remaining EXCEPT ![k] = @ - 1],
                        i + 1)

distributeAvoidingSource(moves, sections) ==
    DistributeAvoidingSource(moves, sections,
        [k \in DOMAIN sections |-> availableCapacity(sections[k])], 1)

\* Mutation of distributeMovesAcrossSections: Moves that fit nowhere are
\* sent to the last candidate.
distributeDumpingUnplaced(moves, sections) ==
    LET free == [k \in DOMAIN sections |-> availableCapacity(sections[k])]
        out == DistributeFrom(moves, sections, free, 1)
        RECURSIVE Sum(_)
        Sum(k) == IF k = 0 THEN 0 ELSE free[k] + Sum(k - 1)
        total == Sum(Len(sections))
    IN  [i \in DOMAIN out |->
            IF i > total
            THEN [out[i] EXCEPT !.toSidebarSectionId = sections[Len(sections)].id]
            ELSE out[i]]

\* Mutation of distributeMovesAcrossSections: a rewritten Move forgets the
\* bucket it comes from.
distributeClearingSource(moves, sections) ==
    LET placed == DistributeFrom(moves, sections,
                    [k \in DOMAIN sections |-> availableCapacity(sections[k])], 1)
    IN  [i \in DOMAIN placed |->
            IF placed[i].toSidebarSectionId = moves[i].toSidebarSectionId
            THEN placed[i]
            ELSE [placed[i] EXCEPT !.fromSidebarSectionId = <<>>]]

\* distributeMovesAcrossSections(moves, sections): sections is the primary
\* bucket followed by its overflow buckets; the Moves are rewritten in place.
distributeMovesAcrossSections(moves, sections) ==
    DistributeFrom(moves, sections,
        [k \in DOMAIN sections |-> availableCapacity(sections[k])], 1)

\* ---- the distributor on its own: one batch, one candidate list ----

\* Ids and names of the candidates: "T", "T (2)", "T (3)", ...
CandidateId(k) == <<"S", DigitChar(k)>>
CandidateName(k) ==
    IF k = 1 THEN <<"T">> ELSE <<"T", " ", "(", DigitChar(k), ")">>

\* Member counts around the limit, as the test suite builds them.
MemberCounts ==
    { 0, SECTION_CHANNEL_LIMIT - 2, SECTION_CHANNEL_LIMIT - 1,
      SECTION_CHANNEL_LIMIT, SECTION_CHANNEL_LIMIT + 10 }

\* null (fromSidebarSection?.id || null: an empty id is null as well)
Null == <<>>

\* Where a Move of the batch may come from: no bucket, or the first overflow.
BatchSources == { Null, CandidateId(2) }

\* Mutation of SidebarMove: the destination is recorded as the source too.
SidebarMoveFromDestination(channelId, from, to) ==
    [channelId |-> channelId, fromSidebarSectionId |-> to,
     toSidebarSectionId |-> to]

\* makeMove(channelId, toSectionId), with a source bucket.
SidebarMove(channelId, from, to) ==
    [channelId |-> channelId, fromSidebarSectionId |-> from,
     toSidebarSectionId |-> to]

ChannelId(i) == <<"C", DigitChar(i)>>

InitDist ==
    /\ NewLimiter(1, 1)
    /\ pc = "batch"
    /\ writeChanges = FALSE
    /\ sidebarRulesRaw = <<>>
    /\ sidebarRules = <<>>
    /\ channels = <<>>
    /\ \E n \in 1..MaxCandidates :
       \E counts \in [1..n -> MemberCounts] :
          sidebarSections =
            [k \in 1..n |->
                SidebarSection(CandidateId(k), CandidateName(k), Fill(counts[k]))]
    /\ \E m \in 0..MaxBatch :
       \E from \in [1..m -> BatchSources] :
          sidebarMoves =
            [i \in 1..m |-> SidebarMove(ChannelId(i), from[i], CandidateId(1))]
    /\ plannedMoves = <<>>
    /\ moveIdx = 0
    /\ successfulMoves = <<>>
    /\ errors = <<>>
    /\ apiLog = <<>>
    /\ fatal = NoFatal
    /\ proposedRules = <<>>
    /\ returned = <<>>

\* distributeMovesAcrossSections(moves, [original, ...overflow])
DistributeBatch ==
    /\ pc = "batch"
    /\ plannedMoves' = sidebarMoves
    /\ sidebarMoves' = distributeMovesAcrossSections(sidebarMoves, sidebarSections)
    /\ pc' = "distributed"
    /\ UNCHANGED rlVars
    /\ UNCHANGED <<writeChanges, sidebarRulesRaw, sidebarSections, sidebarRules,
                   channels, moveIdx, successfulMoves, errors, apiLog>>
    /\ UNCHANGED <<fatal, proposedRules, returned>>

\* section.availableCapacity(), for every section of the snapshot
AvailableCapacity ==
    /\ pc = "batch"
    /\ returned' = [k \in DOMAIN sidebarSections |->
                       availableCapacity(sidebarSections[k])]
    /\ pc' = "measured"
    /\ UNCHANGED rlVars
    /\ UNCHANGED <<writeChanges, sidebarRulesRaw, sidebarSections, sidebarRules,
                   channels, plannedMoves, sidebarMoves, moveIdx, successfulMoves,
                   errors, apiLog, fatal, proposedRules>>

NextDist == DistributeBatch \/ AvailableCapacity

SpecDist == InitDist /\ [][NextDist]_vars

(***************************************************************************)
(* Claims about the distributor (checked under SpecDist)                   *)
(***************************************************************************)

\* Number of Moves of ms directed at bucket id.
CountTo(ms, id) ==
    Cardinality({ i \in DOMAIN ms : ms[i].toSidebarSectionId = id })

\* Free slots of candidate k in the snapshot, and of all candidates.
FreeSlots(k) ==
    IF Len(sidebarSections[k].channelIds) >= 500
    THEN 0
    ELSE 500 - Len(sidebarSections[k].channelIds)

RECURSIVE FreeSlotsUpTo(_)
FreeSlotsUpTo(k) == IF k = 0 THEN 0 ELSE FreeSlots(k) + FreeSlotsUpTo(k - 1)

TotalFreeSlots == FreeSlotsUpTo(Len(sidebarSections))

\* Moves of the batch for which no candidate has a slot left.
Unplaceable ==
    IF Len(plannedMoves) > TotalFreeSlots
    THEN Len(plannedMoves) - TotalFreeSlots
    ELSE 0

\* C2 as stated: after distribution, for each bucket the Moves directed at
\* it plus its existing members do not exceed 500.
C2_CapacityAsStated ==
    pc = "distributed" =>
        \A k \in DOMAIN sidebarSections :
            CountTo(sidebarMoves, sidebarSections[k].id)
              + Len(sidebarSections[k].channelIds) <= 500

\* C2 amended: after distribution the Moves directed at each bucket do not
\* exceed its free slots max(0, 500 - members), apart from the Moves that
\* fit nowhere, which stay on the primary bucket.
C2_CapacityAmended ==
    pc = "distributed" =>
        \A k \in DOMAIN sidebarSections :
            CountTo(sidebarMoves, sidebarSections[k].id)
              <= FreeSlots(k) + (IF k = 1 THEN Unplaceable ELSE 0)

\* C2 witness: a batch filled the primary and an overflow bucket exactly to
\* 500 and every Move found a slot.
C2_Witness ==
    /\ pc = "distributed"
    /\ Len(sidebarSections) >= 2
    /\ Len(plannedMoves) >= 3
    /\ Unplaceable = 0
    /\ \A k \in 1..2 :
          /\ FreeSlots(k) > 0
          /\ CountTo(sidebarMoves, sidebarSections[k].id)
               + Len(sidebarSections[k].channelIds) = 500

\* C3: a Move goes to an overflow bucket only when the primary and every
\* earlier overflow bucket have been filled by the Moves before it.
C3_FillOrder ==
    pc = "distributed" =>
        \A i \in DOMAIN sidebarMoves : \A k \in 2..Len(sidebarSections) :
            sidebarMoves[i].toSidebarSectionId = sidebarSections[k].id
            => \A j \in 1..(k - 1) :
                  Cardinality({ h \in 1..(i - 1) :
                      sidebarMoves[h].toSidebarSectionId = sidebarSections[j].id })
                    >= FreeSlots(j)

\* C3 witness: the primary took a Move, then the first overflow bucket,
\* then the second.
C3_Witness ==
    /\ pc = "distributed"
    /\ Len(sidebarSections) = 3
    /\ Len(sidebarMoves) >= 3
    /\ sidebarMoves[1].toSidebarSectionId = sidebarSections[1].id
    /\ sidebarMoves[2].toSidebarSectionId = sidebarSections[2].id
    /\ sidebarMoves[3].toSidebarSectionId = sidebarSections[3].id

\* The batch ms rearranged by the permutation p of its indices.
Permuted(ms, p) == [i \in DOMAIN ms |-> ms[p[i]]]

\* C5: distributing any permutation of the batch against the same
\* candidates directs the same number of Moves at each bucket.
C5_OrderInsensitive ==
    pc = "distributed" =>
        \A p \in Permutations(DOMAIN plannedMoves) :
            \A k \in DOMAIN sidebarSections :
                CountTo(distributeMovesAcrossSections(
                            Permuted(plannedMoves, p), sidebarSections),
                        sidebarSections[k].id)
                  = CountTo(sidebarMoves, sidebarSections[k].id)

\* C5 witness: a batch of Moves with different sources was split between
\* the primary and an overflow bucket.
C5_Witness ==
    /\ pc = "distributed"
    /\ Len(sidebarSections) >= 2
    /\ Len(sidebarMoves) >= 2
    /\ plannedMoves[1].fromSidebarSectionId # plannedMoves[2].fromSidebarSectionId
    /\ sidebarMoves[1].toSidebarSectionId = sidebarSections[1].id
    /\ sidebarMoves[2].toSidebarSectionId = sidebarSections[2].id

(***************************************************************************)
(* Rules (organize.ts:66-126)                                              *)
(***************************************************************************)

\* String.prototype.startsWith / endsWith / includes
StartsWith(n, v) == /\ Len(v) <= Len(n)
                    /\ SubSeq(n, 1, Len(v)) = v
\* Mutation of EndsWith: the value may end anywhere in the name.
EndsWithAnywhere(n, v) ==
    \E i \in 0..(Len(n) - Len(v)) : SubSeq(n, i + 1, i + Len(v)) = v

EndsWith(n, v) == /\ Len(v) <= Len(n)
                  /\ SubSeq(n, Len(n) - Len(v) + 1, Len(n)) = v
Includes(n, v) == \E i \in 0..(Len(n) - Len(v)) : SubSeq(n, i + 1, i + Len(v)) = v

\* undefined: the value of an absent field.  It is no string (a string is a
\* sequence of characters).
Undefined == <<"undefined">>

\* ToStringArg(v), as startsWith / endsWith / includes apply it to their
\* argument: undefined becomes the nine characters "undefined".
ToStringArg(v) ==
    IF v = Undefined
    THEN <<"u", "n", "d", "e", "f", "i", "n", "e", "d">>
    ELSE v

\* The variants SidebarRule.fromJSON of organize.ts constructs, and the
\* variant the rules format adds to them.
RuleTypes == {"prefix", "suffix", "keyword"}
ExactRuleType == "exact"

\* new PrefixSidebarRule(id, value, skipIfOrganized, mute) etc.: the
\* variant, its value, its section and its two flags.
SidebarRuleWith(type, sidebarSectionId, value, skipIfOrganized, mute) ==
    [type |-> type, sidebarSectionId |-> sidebarSectionId, value |-> value,
     skipIfOrganized |-> skipIfOrganized, mute |-> mute]

\* new PrefixSidebarRule(id, value) etc.: both flags default to false.
SidebarRule(type, sidebarSectionId, value) ==
    SidebarRuleWith(type, sidebarSectionId, value, FALSE, FALSE)

\* ExactSidebarRule.applies: the name is the value (strict equality, no
\* conversion of the value).
ExactApplies(channelName, name) == channelName = name

\* rule.applies(channelName)
applies(rule, channelName) ==
    CASE rule.type = "prefix" -> StartsWith(channelName, ToStringArg(rule.value))
      [] rule.type = "suffix" -> EndsWith(channelName, ToStringArg(rule.value))
      [] rule.type = "keyword" -> Includes(channelName, ToStringArg(rule.value))
      [] rule.type = ExactRuleType -> ExactApplies(channelName, rule.value)

\* Mutation of FindRule: rules without a destination are passed over.
FindRuleWithDestination(rules, channelName) ==
    LET ok == { i \in DOMAIN rules : /\ rules[i].sidebarSectionId # <<>>
                                      /\ applies(rules[i], channelName) }
    IN  IF ok = {} THEN 0 ELSE CHOOSE i \in ok : \A j \in ok : i <= j

\* Mutation of FindRule: the last applying rule wins.
FindLastRule(rules, channelName) ==
    IF \E i \in DOMAIN rules : applies(rules[i], channelName)
    THEN CHOOSE i \in DOMAIN rules :
            /\ applies(rules[i], channelName)
            /\ \A j \in DOMAIN rules : applies(rules[j], channelName) => j <= i
    ELSE 0

\* sidebarRules.find(r => r.applies(channel.name)): index of the rule, 0 if
\* none.
RECURSIVE FindRuleFrom(_, _, _)
FindRuleFrom(rules, channelName, i) ==
    IF i > Len(rules) THEN 0
    ELSE IF applies(rules[i], channelName) THEN i
    ELSE FindRuleFrom(rules, channelName, i + 1)

FindRule(rules, channelName) == FindRuleFrom(rules, channelName, 1)

(***************************************************************************)
(* main(): loading the rules (organize.ts:462-489)                         *)
(***************************************************************************)

\* Array.prototype.find over a sequence of test results: index of the
\* first TRUE, 0 if there is none.
FirstTrue(flags) ==
    IF \E i \in DOMAIN flags : flags[i]
    THEN CHOOSE i \in DOMAIN flags :
            /\ flags[i]
            /\ \A j \in DOMAIN flags : flags[j] => i <= j
    ELSE 0

\* sidebarSections.find(s => s.id === id)
getSidebarSection(sections, id) ==
    FirstTrue([k \in DOMAIN sections |-> sections[k].id = id])

\* Mutation of ResolveSection: an entry that names no section of the
\* snapshot is given the first section.
ResolveSectionOrFirst(sections, json) ==
    IF \E k \in DOMAIN sections : json.sidebar_section = sections[k].id
    THEN CHOOSE k \in DOMAIN sections : json.sidebar_section = sections[k].id
    ELSE IF \E k \in DOMAIN sections : json.sidebar_section = sections[k].name
    THEN CHOOSE k \in DOMAIN sections : json.sidebar_section = sections[k].name
    ELSE 1

\* sidebarSections.find(by id) || sidebarSections.find(by name)
ResolveSection(sections, json) ==
    LET byId == FirstTrue([k \in DOMAIN sections |->
                              json.sidebar_section = sections[k].id])
    IN  IF byId # 0 THEN byId
        ELSE FirstTrue([k \in DOMAIN sections |->
                           json.sidebar_section = sections[k].name])

\* An entry that names no section and asks for muting: a mute-only rule,
\* constructed with a null destination.
MuteOnly(json) == json.sidebar_section = Undefined /\ json.mute

\* What constructing the rule of one rules-file entry does: "exit" for an
\* unresolved section, "throw" for an unknown type, "ok" otherwise.
RuleOutcome(sections, json) ==
    IF ~MuteOnly(json) /\ ResolveSection(sections, json) = 0 THEN "exit"
    ELSE IF json.type \notin RuleTypes \cup {ExactRuleType} THEN "throw"
    ELSE "ok"

\* What the run prints when the entry halts it: console.log of the
\* unresolved section, or the message of the thrown Error.
FatalOf(sections, json) ==
    IF RuleOutcome(sections, json) = "exit"
    THEN [message |-> "Couldn't find sidebar section for ", type |-> "",
          sidebar_section |-> json.sidebar_section]
    ELSE [message |-> "Unknown rule type: ", type |-> json.type,
          sidebar_section |-> <<>>]

\* SidebarRule.fromJSON(sidebarSection.id, json)
fromJSON(sections, json) ==
    SidebarRuleWith(json.type,
        IF MuteOnly(json) THEN <<>>
        ELSE sections[ResolveSection(sections, json)].id,
        json.value, json.skip_if_organized, json.mute)

\* sidebarRulesRaw.map(...): stops at the first entry that does not construct.
LoadRules ==
    /\ pc = "start"
    /\ LET bad == FirstTrue([i \in DOMAIN sidebarRulesRaw |->
                     RuleOutcome(sidebarSections, sidebarRulesRaw[i]) # "ok"])
       IN  IF bad = 0
           THEN /\ sidebarRules' = [i \in DOMAIN sidebarRulesRaw |->
                                      fromJSON(sidebarSections, sidebarRulesRaw[i])]
                /\ pc' = "loaded"
                /\ fatal' = fatal
           ELSE /\ sidebarRules' = sidebarRules
                /\ fatal' = FatalOf(sidebarSections, sidebarRulesRaw[bad])
                /\ pc' = IF RuleOutcome(sidebarSections, sidebarRulesRaw[bad]) = "exit"
                         THEN "exit1"      \* process.exit(1)
                         ELSE "failed"     \* thrown, main().catch
    /\ UNCHANGED rlVars
    /\ UNCHANGED <<writeChanges, sidebarRulesRaw, sidebarSections, channels,
                   plannedMoves, sidebarMoves, moveIdx, successfulMoves, errors,
                   apiLog, proposedRules, returned>>

(***************************************************************************)
(* main(): calculating the moves (organize.ts:629-653)                     *)
(***************************************************************************)

\* Mutation of SkipsOrganized: the flag is not looked at.
SkipsNothing(rule, from) == FALSE

\* skipIfOrganized: the channel is left alone when it is in a section of
\* the snapshot (from is the index of that section, 0 if there is none).
\* The snapshot holds the user-created sections only (organize.ts:450-452),
\* so a channel of Slack's built-in sections has from = 0.
SkipsOrganized(rule, from) == rule.skipIfOrganized /\ from # 0

\* The Move of one channel, as a sequence of zero or one Moves.
MoveOf(channel, rules, sections) ==
    LET r == FindRule(rules, channel.name)
    IN  IF r = 0 THEN <<>>
        ELSE LET to == getSidebarSection(sections, rules[r].sidebarSectionId)
             IN  IF to = 0 THEN <<>>
                 ELSE IF includesChannel(sections[to], channel.id) THEN <<>>
                 ELSE LET from == FirstTrue([k \in DOMAIN sections |->
                                     includesChannel(sections[k], channel.id)])
                      IN  IF SkipsOrganized(rules[r], from) THEN <<>>
                          ELSE
                          << SidebarMove(channel.id,
                                IF from = 0 THEN Null ELSE sections[from].id,
                                sections[to].id) >>

\* for (const [channelId, channel] of channels) { ... sidebarMoves.push(...) }
RECURSIVE CalculateMovesFrom(_, _, _, _)
CalculateMovesFrom(chs, rules, sections, i) ==
    IF i > Len(chs) THEN <<>>
    ELSE MoveOf(chs[i], rules, sections)
           \o CalculateMovesFrom(chs, rules, sections, i + 1)

CalculateMoves(chs, rules, sections) == CalculateMovesFrom(chs, rules, sections, 1)

(***************************************************************************)
(* Overflow buckets and the distribution of the planned moves              *)
(***************************************************************************)

IsDigit(ch) == \E k \in 0..9 : DigitChar(k) = ch
DigitValue(ch) == CHOOSE k \in 0..9 : DigitChar(k) = ch

\* parseInt of a sequence of decimal digits.
RECURSIVE ParseDigits(_)
ParseDigits(ds) ==
    IF ds = <<>> THEN 0
    ELSE 10 * ParseDigits(SubSeq(ds, 1, Len(ds) - 1)) + DigitValue(ds[Len(ds)])

\* The number n if name is "<baseName> (<n>)", -1 otherwise.
OverflowNumber(baseName, name) ==
    LET b == Len(baseName)
        ds == SubSeq(name, b + 3, Len(name) - 1)
    IN  IF /\ Len(name) >= b + 4
           /\ SubSeq(name, 1, b) = baseName
           /\ name[b + 1] = " "
           /\ name[b + 2] = "("
           /\ name[Len(name)] = ")"
           /\ \A i \in DOMAIN ds : IsDigit(ds[i])
        THEN ParseDigits(ds)
        ELSE -1

\* Mutation of InsertByNumber: the sections stay in input order.
InsertAtEnd(baseName, sorted, sec) == Append(sorted, sec)

\* Stable insertion of section sec into a list ordered by overflow number.
RECURSIVE InsertByNumber(_, _, _)
InsertByNumber(baseName, sorted, sec) ==
    IF sorted = <<>> THEN <<sec>>
    ELSE IF OverflowNumber(baseName, sec.name)
              < OverflowNumber(baseName, sorted[Len(sorted)].name)
         THEN Append(InsertByNumber(baseName,
                        SubSeq(sorted, 1, Len(sorted) - 1), sec),
                     sorted[Len(sorted)])
         ELSE Append(sorted, sec)

RECURSIVE SortByNumber(_, _)
SortByNumber(baseName, secs) ==
    IF secs = <<>> THEN <<>>
    ELSE InsertByNumber(baseName,
            SortByNumber(baseName, SubSeq(secs, 1, Len(secs) - 1)),
            secs[Len(secs)])

\* findOverflowSections(baseName, sections)
findOverflowSections(baseName, sections) ==
    SortByNumber(baseName,
        SelectSeq(sections, LAMBDA sec : OverflowNumber(baseName, sec.name) >= 0))

\* The planned Moves, batch by batch (one batch per destination), spread
\* over the destination and its overflow buckets; positions are kept.
DistributeAll(moves, sections) ==
    [i \in DOMAIN moves |->
        LET dest == moves[i].toSidebarSectionId
            primary == sections[getSidebarSection(sections, dest)]
            batch == SelectSeq(moves, LAMBDA m : m.toSidebarSectionId = dest)
            rank == Cardinality({ j \in 1..i : moves[j].toSidebarSectionId = dest })
            candidates == <<primary>> \o findOverflowSections(primary.name, sections)
        IN  distributeMovesAcrossSections(batch, candidates)[rank]]

(***************************************************************************)
(* The pattern miner (organize.ts:142-172)                                 *)
(***************************************************************************)

Min(a, b) == IF a <= b THEN a ELSE b

\* name.split('-'): the segments between the separators ("" gives [""]).
RECURSIVE Split(_)
Split(name) ==
    IF \E p \in DOMAIN name : name[p] = "-"
    THEN LET p == CHOOSE q \in DOMAIN name :
                    /\ name[q] = "-"
                    /\ \A r \in 1..(q - 1) : name[r] # "-"
         IN  <<SubSeq(name, 1, p - 1)>> \o Split(SubSeq(name, p + 1, Len(name)))
    ELSE <<name>>

\* parts.join('-')
RECURSIVE Join(_)
Join(parts) ==
    IF parts = <<>> THEN <<>>
    ELSE IF Len(parts) = 1 THEN parts[1]
    ELSE parts[1] \o <<"-">> \o Join(Tail(parts))

\* Array.prototype.reverse
Reverse(seq) == [i \in 1..Len(seq) |-> seq[Len(seq) + 1 - i]]

\* A Map is the sequence of its entries in insertion order.
\* map.get(key) || 0
MapGet(map, key) ==
    IF \E i \in DOMAIN map : map[i].key = key
    THEN map[CHOOSE i \in DOMAIN map : map[i].key = key].value
    ELSE 0

\* map.set(key, value): a present key keeps its place.
MapSet(map, key, value) ==
    IF \E i \in DOMAIN map : map[i].key = key
    THEN [i \in DOMAIN map |->
            IF map[i].key = key THEN [key |-> key, value |-> value] ELSE map[i]]
    ELSE Append(map, [key |-> key, value |-> value])

\* Mutation of WithoutLast: the last segment is kept.
WithoutLastKept(parts) == parts

\* parts.slice(0, -1): the last segment is cut off.
WithoutLast(parts) == SubSeq(parts, 1, Len(parts) - 1)

\* The number of leading segments treated as prefixes.
PrefixParts == 4

\* partsWithoutLast.slice(0, 4)
FirstFour(parts) == SubSeq(parts, 1, Min(PrefixParts, Len(parts)))

\* for (let i = 0; i < firstFourParts.length; i++) { ... set(prefix, +1) }
RECURSIVE CountRuns(_, _, _)
CountRuns(map, parts, i) ==
    IF i > Len(parts) THEN map
    ELSE LET prefix == Join(SubSeq(parts, 1, i))
         IN  CountRuns(MapSet(map, prefix, MapGet(map, prefix) + 1), parts, i + 1)

\* for (const name of channelNames) { ... }
RECURSIVE GetPrefixesFrom(_, _, _)
GetPrefixesFrom(map, channelNames, n) ==
    IF n > Len(channelNames) THEN map
    ELSE GetPrefixesFrom(
            CountRuns(map, FirstFour(WithoutLast(Split(channelNames[n]))), 1),
            channelNames, n + 1)

\* getPrefixes(channelNames)
getPrefixes(channelNames) == GetPrefixesFrom(<<>>, channelNames, 1)

\* name.split('-').reverse().join('-')
ReverseParts(name) == Join(Reverse(Split(name)))

\* for (const [key, value] of prefixes) suffixes.set(reversed key, value)
RECURSIVE ReverseKeysFrom(_, _, _)
ReverseKeysFrom(map, prefixes, i) ==
    IF i > Len(prefixes) THEN map
    ELSE ReverseKeysFrom(
            MapSet(map, ReverseParts(prefixes[i].key), prefixes[i].value),
            prefixes, i + 1)

\* Mutation of getSuffixes: the keys are not reversed back.
getSuffixesKeysKept(channelNames) ==
    getPrefixes([i \in DOMAIN channelNames |-> ReverseParts(channelNames[i])])

\* getSuffixes(channelNames)
getSuffixes(channelNames) ==
    ReverseKeysFrom(<<>>,
        getPrefixes([i \in DOMAIN channelNames |-> ReverseParts(channelNames[i])]),
        1)

(***************************************************************************)
(* main(): the rule suggestions (organize.ts:513-627)                      *)
(***************************************************************************)

\* .filter(([k, v]) => v >= 5), .filter(([k]) => k.length < 20), .slice(0, 3)
MinChannels == 5
PatternLengthLimit == 20
TopPatterns == 3

\* .sort((a, b) => b[1] - a[1]): most popular first, equal counts keep
\* their order (Array.prototype.sort is stable).
RECURSIVE InsertByCount(_, _)
InsertByCount(sorted, e) ==
    IF sorted = <<>> THEN <<e>>
    ELSE IF e.value > sorted[Len(sorted)].value
         THEN Append(InsertByCount(SubSeq(sorted, 1, Len(sorted) - 1), e),
                     sorted[Len(sorted)])
         ELSE Append(sorted, e)

RECURSIVE SortByCount(_)
SortByCount(entries) ==
    IF entries = <<>> THEN <<>>
    ELSE InsertByCount(SortByCount(SubSeq(entries, 1, Len(entries) - 1)),
                       entries[Len(entries)])

\* topPrefixes / topSuffixes of one section
TopEntries(map) ==
    LET kept == SelectSeq(map, LAMBDA e : /\ e.value >= MinChannels
                                          /\ Len(e.key) < PatternLengthLimit)
        sorted == SortByCount(kept)
    IN  SubSeq(sorted, 1, Min(TopPatterns, Len(sorted)))

\* Array.from(channels.values()).filter(c => section.includesChannel(c.id))
\*      .map(c => c.name)
ChannelNamesIn(section, chs) ==
    LET members == SelectSeq(chs, LAMBDA c : includesChannel(section, c.id))
    IN  [i \in DOMAIN members |-> members[i].name]

\* The proposals of one section: {type, sidebar_section, prefix | suffix,
\* count}; pattern is the prefix ("<key>-") or the suffix ("-<key>").
SectionProposals(section, chs, type) ==
    LET names == ChannelNamesIn(section, chs)
        top == TopEntries(IF type = "prefix" THEN getPrefixes(names)
                          ELSE getSuffixes(names))
    IN  [i \in DOMAIN top |->
            [type |-> type, sidebar_section |-> section.name,
             pattern |-> IF type = "prefix" THEN top[i].key \o <<"-">>
                         ELSE <<"-">> \o top[i].key,
             count |-> top[i].value]]

\* for (const sidebarSection of sidebarSections) { ... push(...) }
RECURSIVE ProposedFrom(_, _, _, _)
ProposedFrom(sections, chs, type, k) ==
    IF k > Len(sections) THEN <<>>
    ELSE SectionProposals(sections[k], chs, type)
           \o ProposedFrom(sections, chs, type, k + 1)

\* Deduplicate: per pattern keep the proposal with most channels.
RECURSIVE DedupeFrom(_, _, _)
DedupeFrom(map, rules, i) ==
    IF i > Len(rules) THEN map
    ELSE LET present == \E j \in DOMAIN map : map[j].key = rules[i].pattern
         IN  IF ~present \/ rules[i].count > MapGet(map, rules[i].pattern).count
             THEN DedupeFrom(MapSet(map, rules[i].pattern, rules[i]), rules, i + 1)
             ELSE DedupeFrom(map, rules, i + 1)

\* [...prefixMap.values()]
Dedupe(rules) ==
    LET map == DedupeFrom(<<>>, rules, 1)
    IN  [i \in DOMAIN map |-> map[i].value]

\* The order localeCompare gives the characters of the section names in
\* use: space and punctuation, then digits, then letters (one case only).
Collation ==
    <<" ", "-", "(", ")", "0", "1", "2", "3", "4", "5", "6", "7", "8", "9",
      "A", "B">>

CharRank(ch) == CHOOSE k \in DOMAIN Collation : Collation[k] = ch

\* a.localeCompare(b): negative, zero or positive.
RECURSIVE LocaleCompare(_, _)
LocaleCompare(a, b) ==
    IF a = <<>> /\ b = <<>> THEN 0
    ELSE IF a = <<>> THEN -1
    ELSE IF b = <<>> THEN 1
    ELSE IF CharRank(a[1]) < CharRank(b[1]) THEN -1
    ELSE IF CharRank(a[1]) > CharRank(b[1]) THEN 1
    ELSE LocaleCompare(Tail(a), Tail(b))

\* The comparator of the final sort: section name, then count descending.
CompareProposed(a, b) ==
    LET sectionCompare == LocaleCompare(a.sidebar_section, b.sidebar_section)
    IN  IF sectionCompare # 0 THEN sectionCompare ELSE b.count - a.count

RECURSIVE InsertProposed(_, _)
InsertProposed(sorted, r) ==
    IF sorted = <<>> THEN <<r>>
    ELSE IF CompareProposed(r, sorted[Len(sorted)]) < 0
         THEN Append(InsertProposed(SubSeq(sorted, 1, Len(sorted) - 1), r),
                     sorted[Len(sorted)])
         ELSE Append(sorted, r)

RECURSIVE SortProposed(_)
SortProposed(rules) ==
    IF rules = <<>> THEN <<>>
    ELSE InsertProposed(SortProposed(SubSeq(rules, 1, Len(rules) - 1)),
                        rules[Len(rules)])

\* The suggestions main() prints when no rules were given.
SuggestRules(sections, chs) ==
    SortProposed(Dedupe(ProposedFrom(sections, chs, "prefix", 1))
                   \o Dedupe(ProposedFrom(sections, chs, "suffix", 1)))

\* Mutation of AfterPlan: the --write flag is not looked at.
AfterPlanIgnoringFlag(moves, write) ==
    IF moves = <<>> THEN "organised" ELSE "execute"

\* Where main() goes with the calculated Moves: process.exit(0) when there
\* are none, the dry-run report and process.exit(0) without --write, the
\* execute loop otherwise.
AfterPlan(moves, write) ==
    IF moves = <<>> THEN "organised"
    ELSE IF ~write THEN "dryRun"
    ELSE "execute"

\* After getChannels(): suggestions, or plan and report, or start executing.
PlanMoves ==
    /\ pc = "loaded"
    /\ IF sidebarRules = <<>>
       THEN \* no rules: suggestions are printed, process.exit(0)
            /\ pc' = "suggested"
            /\ proposedRules' = SuggestRules(sidebarSections, channels)
            /\ UNCHANGED <<plannedMoves, sidebarMoves, moveIdx>>
       ELSE LET moves == CalculateMoves(channels, sidebarRules, sidebarSections)
            IN  /\ plannedMoves' = moves
                /\ proposedRules' = proposedRules
                /\ sidebarMoves' = DistributeAll(moves, sidebarSections)
                /\ pc' = AfterPlan(moves, writeChanges)
                /\ moveIdx' = IF pc' = "execute" THEN 1 ELSE moveIdx
    /\ UNCHANGED rlVars
    /\ UNCHANGED <<writeChanges, sidebarRulesRaw, sidebarSections, sidebarRules,
                   channels, successfulMoves, errors, apiLog>>
    /\ UNCHANGED <<fatal, returned>>

(***************************************************************************)
(* main(): executing the moves (organize.ts:723-746)                       *)
(***************************************************************************)

\* main() is caller 1 of its limiter.
Main == 1

\* What the relocation call can answer (the third is Slack's rate limit).
MoveResults ==
    { [ok |-> TRUE, error |-> ""],
      [ok |-> FALSE, error |-> "not_allowed"],
      [ok |-> FALSE, error |-> "ratelimited"] }

\* Mutation of AfterResult: the first failed Move ends the loop.
AfterResultAbort(i, result) ==
    IF result.ok THEN i + 1 ELSE Len(sidebarMoves) + 1

\* Mutation of AfterResult: a failed Move is tried again.
AfterResultRetry(i, result) == IF result.ok THEN i + 1 ELSE i

\* The loop goes on to the next Move whatever the result was.
AfterResult(i, result) == i + 1

\* Mutation of AfterRaise: the loop goes on after a rejected request.
AfterRaiseSkip(i) ==
    [pc |-> IF i + 1 > Len(sidebarMoves) THEN "done" ELSE "execute",
     moveIdx |-> i + 1]

\* A rejected request leaves the loop: main().catch prints and exits.
AfterRaise(i) == [pc |-> "failed", moveIdx |-> i]

Event(op, i) == [op |-> op, move |-> i, args |-> sidebarMoves[i]]

\* await limiter.wait(): the call, up to its return or its first sleep.
ExecWait ==
    /\ pc = "execute"
    /\ waiter[Main].state = "idle"
    /\ wait(Main, TRUE)
    /\ callOrder' = Append(callOrder, Main)
    /\ IF waiter'[Main].state = "admitted"
       THEN pc' = "admitted" /\ apiLog' = Append(apiLog, Event("admit", moveIdx))
       ELSE pc' = "sleeping" /\ apiLog' = apiLog
    /\ UNCHANGED <<now, limit, intervalMs>>
    /\ UNCHANGED <<writeChanges, sidebarRulesRaw, sidebarSections, sidebarRules,
                   channels, plannedMoves, sidebarMoves, moveIdx,
                   successfulMoves, errors>>
    /\ UNCHANGED <<fatal, proposedRules, returned>>

\* The sleep inside limiter.wait() ends and wait() re-evaluates.
ExecWake ==
    /\ pc = "sleeping"
    /\ waiter[Main].state = "sleeping"
    /\ now >= waiter[Main].wakeAt
    /\ wait(Main, FALSE)
    /\ IF waiter'[Main].state = "admitted"
       THEN pc' = "admitted" /\ apiLog' = Append(apiLog, Event("admit", moveIdx))
       ELSE pc' = "sleeping" /\ apiLog' = apiLog
    /\ UNCHANGED <<now, limit, intervalMs, callOrder>>
    /\ UNCHANGED <<writeChanges, sidebarRulesRaw, sidebarSections, sidebarRules,
                   channels, plannedMoves, sidebarMoves, moveIdx,
                   successfulMoves, errors>>
    /\ UNCHANGED <<fatal, proposedRules, returned>>

\* client.sidebarMove(move.channelId, move.toSidebarSectionId, move.from...)
ExecCall ==
    /\ pc = "admitted"
    /\ pc' = "inflight"
    /\ apiLog' = Append(apiLog, Event("call", moveIdx))
    /\ waiter' = [waiter EXCEPT ![Main] = IdleWaiter]
    /\ UNCHANGED <<now, limit, intervalMs, timestamps, admitLog, callOrder>>
    /\ UNCHANGED <<writeChanges, sidebarRulesRaw, sidebarSections, sidebarRules,
                   channels, plannedMoves, sidebarMoves, moveIdx,
                   successfulMoves, errors>>
    /\ UNCHANGED <<fatal, proposedRules, returned>>

\* The relocation request is answered.
ExecResult ==
    /\ pc = "inflight"
    /\ \E result \in MoveResults :
          LET next == AfterResult(moveIdx, result)
          IN  /\ apiLog' = Append(apiLog, Event("result", moveIdx))
              /\ IF result.ok
                 THEN /\ successfulMoves' = Append(successfulMoves, sidebarMoves[moveIdx])
                      /\ errors' = errors
                 ELSE /\ errors' = Append(errors,
                            [move |-> sidebarMoves[moveIdx], result |-> result])
                      /\ successfulMoves' = successfulMoves
              /\ moveIdx' = next
              /\ pc' = IF next > Len(sidebarMoves) THEN "done" ELSE "execute"
    /\ UNCHANGED rlVars
    /\ UNCHANGED <<writeChanges, sidebarRulesRaw, sidebarSections, sidebarRules,
                   channels, plannedMoves, sidebarMoves>>
    /\ UNCHANGED <<fatal, proposedRules, returned>>

\* The relocation request fails (transport error, unparsable answer): the
\* promise rejects, main() ends in its catch handler.
ExecRaise ==
    /\ pc = "inflight"
    /\ pc' = AfterRaise(moveIdx).pc
    /\ moveIdx' = AfterRaise(moveIdx).moveIdx
    /\ apiLog' = Append(apiLog, Event("raise", moveIdx))
    /\ UNCHANGED rlVars
    /\ UNCHANGED <<writeChanges, sidebarRulesRaw, sidebarSections, sidebarRules,
                   channels, plannedMoves, sidebarMoves,
                   successfulMoves, errors>>
    /\ UNCHANGED <<fatal, proposedRules, returned>>

\* The clock advances while main() awaits its sleep or the answer to a
\* relocation request.
ExecTick ==
    /\ pc \in {"sleeping", "inflight"}
    /\ Tick

(***************************************************************************)
(* Runs of main()                                                          *)
(***************************************************************************)

\* All strings over alphabet of length at most n.
Strings(alphabet, n) == UNION { [1..k -> alphabet] : k \in 0..n }

\* All sequences over set of length at most n.
SeqsUpTo(set, n) == UNION { [1..k -> set] : k \in 0..n }

\* One entry of the rules file.
RuleJSONWith(type, sidebar_section, value, skip_if_organized, mute) ==
    [type |-> type, sidebar_section |-> sidebar_section, value |-> value,
     skip_if_organized |-> skip_if_organized, mute |-> mute]

\* An entry without skip_if_organized and mute: both read as false.
RuleJSON(type, sidebar_section, value) ==
    RuleJSONWith(type, sidebar_section, value, FALSE, FALSE)

SecA == <<"S", "1">>
SecA2 == <<"S", "2">>
SecB == <<"S", "3">>

\* ---- planning only: every rule list against every channel name ----

PlanValues == { <<>>, <<"a">>, <<"b">>, <<"a", "b">> }

PlanRules ==
    { RuleJSON(t, sec, v) : t \in RuleTypes, sec \in {SecA, SecB}, v \in PlanValues }

InitPlan ==
    /\ NewLimiter(ExecLimit, ExecIntervalMs)
    /\ pc = "start"
    /\ writeChanges = FALSE
    /\ sidebarRulesRaw \in SeqsUpTo(PlanRules, MaxRules)
    /\ \E inA \in BOOLEAN :
          sidebarSections =
            << SidebarSection(SecA, <<"A">>, IF inA THEN <<ChannelId(1)>> ELSE <<>>),
               SidebarSection(SecB, <<"B">>, <<ChannelId(2)>>) >>
    /\ sidebarRules = <<>>
    /\ \E name \in Strings({"a", "b"}, MaxNameLen) :
          channels = << [id |-> ChannelId(1), name |-> name],
                        [id |-> ChannelId(2), name |-> <<"a", "b">>] >>
    /\ plannedMoves = <<>>
    /\ sidebarMoves = <<>>
    /\ moveIdx = 0
    /\ successfulMoves = <<>>
    /\ errors = <<>>
    /\ apiLog = <<>>
    /\ fatal = NoFatal
    /\ proposedRules = <<>>
    /\ returned = <<>>

NextPlan == LoadRules \/ PlanMoves

SpecPlan == InitPlan /\ [][NextPlan]_vars

\* ---- planning with flags: skip_if_organized, mute-only rules, channels
\* ---- that are members of several sections ----

\* Where an entry points and whether it mutes: a section by id, a section
\* by name, or no section at all (mute-only).
OrgTargets ==
    { [sidebar_section |-> SecA, mute |-> FALSE],
      [sidebar_section |-> <<"B">>, mute |-> FALSE],
      [sidebar_section |-> Undefined, mute |-> TRUE] }

OrgRules ==
    { RuleJSONWith("prefix", t.sidebar_section, v, skip, t.mute) :
        t \in OrgTargets, v \in { <<"a">>, <<"b">> }, skip \in BOOLEAN }

OrgNames == { <<"a">>, <<"a", "b">>, <<"b">> }

InitOrg ==
    /\ NewLimiter(ExecLimit, ExecIntervalMs)
    /\ pc = "start"
    /\ writeChanges = FALSE
    /\ sidebarRulesRaw \in SeqsUpTo(OrgRules, MaxRules)
    /\ \E inA \in BOOLEAN : \E inB \in BOOLEAN :
          sidebarSections =
            << SidebarSection(SecA, <<"A">>, IF inA THEN <<ChannelId(1)>> ELSE <<>>),
               SidebarSection(SecB, <<"B">>,
                  <<ChannelId(3)>> \o (IF inB THEN <<ChannelId(1)>> ELSE <<>>)) >>
    /\ sidebarRules = <<>>
    /\ \E name \in OrgNames :
          channels = << [id |-> ChannelId(1), name |-> name],
                        [id |-> ChannelId(2), name |-> <<"a", "b">>] >>
    /\ plannedMoves = <<>>
    /\ sidebarMoves = <<>>
    /\ moveIdx = 0
    /\ successfulMoves = <<>>
    /\ errors = <<>>
    /\ apiLog = <<>>
    /\ fatal = NoFatal
    /\ proposedRules = <<>>
    /\ returned = <<>>

SpecOrg == InitOrg /\ [][NextPlan]_vars

\* ---- matching: one rule of any variant and value against one name ----

MatchAlphabet == {"a", "A", "b"}

\* The names and the rule values: every string up to MaxNameLen, and the
\* name "undefined"; a rule's field may also be absent.
MatchNames == Strings(MatchAlphabet, MaxNameLen) \cup {ToStringArg(Undefined)}
MatchValues == Strings(MatchAlphabet, MaxNameLen) \cup {Undefined}

InitMatch ==
    /\ NewLimiter(ExecLimit, ExecIntervalMs)
    /\ pc = "start"
    /\ writeChanges = FALSE
    /\ \E type \in RuleTypes \cup {ExactRuleType} : \E v \in MatchValues :
          sidebarRulesRaw = << RuleJSON(type, SecA, v) >>
    /\ sidebarSections = << SidebarSection(SecA, <<"A">>, <<>>),
                            SidebarSection(SecB, <<"B">>, <<ChannelId(2)>>) >>
    /\ sidebarRules = <<>>
    /\ \E name \in MatchNames :
          channels = << [id |-> ChannelId(1), name |-> name] >>
    /\ plannedMoves = <<>>
    /\ sidebarMoves = <<>>
    /\ moveIdx = 0
    /\ successfulMoves = <<>>
    /\ errors = <<>>
    /\ apiLog = <<>>
    /\ fatal = NoFatal
    /\ proposedRules = <<>>
    /\ returned = <<>>

SpecMatch == InitMatch /\ [][NextPlan]_vars

\* ---- whole runs: rules file, snapshot, --write or not ----

\* Entries a rules file of a run is made of: by name, by id, into a bucket
\* with an overflow sibling, of an unknown type, for an unknown section.
RunRules ==
    { RuleJSON("prefix", <<"A">>, <<"a">>),
      RuleJSON("suffix", SecB, <<"a">>),
      RuleJSON("regex", <<"A">>, <<"a">>),
      RuleJSON("prefix", <<"Z">>, <<"b">>) }

RunChannels ==
    << [id |-> ChannelId(1), name |-> <<"a", "a">>],
       [id |-> ChannelId(2), name |-> <<"a", "b">>],
       [id |-> ChannelId(3), name |-> <<"b", "a">>] >>

Init ==
    /\ NewLimiter(ExecLimit, ExecIntervalMs)
    /\ pc = "start"
    /\ writeChanges \in BOOLEAN
    /\ sidebarRulesRaw \in SeqsUpTo(RunRules, MaxRules)
    /\ \E fillA \in {0, SECTION_CHANNEL_LIMIT - 1, SECTION_CHANNEL_LIMIT} :
       \E fillA2 \in {0, SECTION_CHANNEL_LIMIT} :
       \E in1 \in BOOLEAN : \E in2 \in BOOLEAN : \E in3 \in BOOLEAN :
          sidebarSections =
            << SidebarSection(SecA, <<"A">>,
                  Fill(fillA) \o (IF in2 THEN <<ChannelId(2)>> ELSE <<>>)),
               SidebarSection(SecA2, <<"A", " ", "(", "2", ")">>,
                  Fill(fillA2) \o (IF in3 THEN <<ChannelId(3)>> ELSE <<>>)),
               SidebarSection(SecB, <<"B">>,
                  IF in1 THEN <<ChannelId(1)>> ELSE <<>>) >>
    /\ sidebarRules = <<>>
    /\ channels = RunChannels
    /\ plannedMoves = <<>>
    /\ sidebarMoves = <<>>
    /\ moveIdx = 0
    /\ successfulMoves = <<>>
    /\ errors = <<>>
    /\ apiLog = <<>>
    /\ fatal = NoFatal
    /\ proposedRules = <<>>
    /\ returned = <<>>

Next ==
    \/ LoadRules
    \/ PlanMoves
    \/ ExecWait
    \/ ExecWake
    \/ ExecCall
    \/ ExecResult
    \/ ExecRaise
    \/ ExecTick

Spec == Init /\ [][Next]_vars

(***************************************************************************)
(* The helpers called on their own (organize.test.ts, part_001)            *)
(***************************************************************************)

\* What a helper call leaves alone: everything but pc and returned.
helperFrame ==
    <<now, limit, intervalMs, timestamps, waiter, admitLog, callOrder,
      writeChanges, sidebarRulesRaw, sidebarSections, sidebarRules, channels,
      plannedMoves, sidebarMoves, moveIdx, successfulMoves, errors, apiLog,
      fatal, proposedRules>>

\* ---- the miner: lists of names over a letter and the separator ----

MineAlphabet == {"a", "-"}

\* The names of the channels, in order.
ChannelNames == [i \in DOMAIN channels |-> channels[i].name]

InitMine ==
    /\ NewLimiter(1, 1)
    /\ pc = "names"
    /\ writeChanges = FALSE
    /\ sidebarRulesRaw = <<>>
    /\ sidebarSections = <<>>
    /\ sidebarRules = <<>>
    /\ \/ channels = <<>>
       \/ \E first \in Strings(MineAlphabet, MaxMineLen) :
          \E others \in SeqsUpTo(Strings(MineAlphabet, MaxOtherLen), MaxNames - 1) :
             channels = [i \in 1..(Len(others) + 1) |->
                           [id |-> ChannelId(i),
                            name |-> IF i = 1 THEN first ELSE others[i - 1]]]
    /\ plannedMoves = <<>>
    /\ sidebarMoves = <<>>
    /\ moveIdx = 0
    /\ successfulMoves = <<>>
    /\ errors = <<>>
    /\ apiLog = <<>>
    /\ fatal = NoFatal
    /\ proposedRules = <<>>
    /\ returned = <<>>

\* getPrefixes(channelNames)
GetPrefixes ==
    /\ pc = "names"
    /\ returned' = getPrefixes(ChannelNames)
    /\ pc' = "prefixes"
    /\ UNCHANGED helperFrame

\* getSuffixes(channelNames)
GetSuffixes ==
    /\ pc = "names"
    /\ returned' = getSuffixes(ChannelNames)
    /\ pc' = "suffixes"
    /\ UNCHANGED helperFrame

NextMine == GetPrefixes \/ GetSuffixes

SpecMine == InitMine /\ [][NextMine]_vars

\* ---- the overflow resolver: section lists over a pool of names ----

\* Names around the shape "<baseName> (<digits>)": the primary, numbered
\* siblings, another base name, malformed and non-numeric suffixes, and a
\* sibling of a base name that itself ends in a parenthesis.
OverflowNames ==
    { <<"T">>,
      <<"T", " ", "(", "2", ")">>,
      <<"T", " ", "(", "5", ")">>,
      <<"T", " ", "(", "1", "0", ")">>,
      <<"T", " ", "(", "x", ")">>,
      <<"T", " ", "(", ")">>,
      <<"T", "(", "2", ")">>,
      <<"U", " ", "(", "2", ")">>,
      <<"T", " ", "(", "2", ")", " ", "(", "3", ")">> }

OverflowBaseNames == { <<"T">>, <<"T", " ", "(", "2", ")">> }

InitOverflow ==
    /\ NewLimiter(1, 1)
    /\ pc = "sections"
    /\ writeChanges = FALSE
    /\ sidebarRulesRaw = <<>>
    /\ \E names \in SeqsUpTo(OverflowNames, MaxSections) :
          sidebarSections =
            [k \in DOMAIN names |-> SidebarSection(CandidateId(k), names[k], <<>>)]
    /\ sidebarRules = <<>>
    /\ channels = <<>>
    /\ plannedMoves = <<>>
    /\ sidebarMoves = <<>>
    /\ moveIdx = 0
    /\ successfulMoves = <<>>
    /\ errors = <<>>
    /\ apiLog = <<>>
    /\ fatal = NoFatal
    /\ proposedRules = <<>>
    /\ returned = <<>>

\* findOverflowSections(baseName, sections)
FindOverflow ==
    /\ pc = "sections"
    /\ \E baseName \in OverflowBaseNames :
          returned' = [baseName |-> baseName,
                       sections |-> findOverflowSections(baseName, sidebarSections)]
    /\ pc' = "overflow"
    /\ UNCHANGED helperFrame

NextOverflow == FindOverflow

SpecOverflow == InitOverflow /\ [][NextOverflow]_vars

\* ---- suggestions: a run without rules over two groups of channels ----

\* Channel k of group g: its id and its name "<g>-<k>-z".
GroupChannel(g, k) ==
    [id |-> <<"C", g, DigitChar(k)>>, name |-> <<g, "-", DigitChar(k), "-", "z">>]

\* The channels of group g, sorted by name as getChannels returns them.
Group(g, n) == [k \in 1..n |-> GroupChannel(g, k)]

\* Where a group of channels sits: in section A, in section B, or in both.
Placements == { <<TRUE, FALSE>>, <<FALSE, TRUE>>, <<TRUE, TRUE>> }

\* The member ids a section holds of the two groups.
MembersOfGroups(inA, inB, groupA, groupB) ==
    (IF inA THEN [k \in DOMAIN groupA |-> groupA[k].id] ELSE <<>>)
      \o (IF inB THEN [k \in DOMAIN groupB |-> groupB[k].id] ELSE <<>>)

InitSuggest ==
    /\ NewLimiter(ExecLimit, ExecIntervalMs)
    /\ pc = "start"
    /\ writeChanges = FALSE
    /\ sidebarRulesRaw = <<>>
    /\ sidebarRules = <<>>
    /\ \E na \in 0..MaxGroup : \E nb \in 0..MaxGroup :
       \E pa \in Placements : \E pb \in Placements :
          /\ channels = Group("a", na) \o Group("b", nb)
          /\ sidebarSections =
               << SidebarSection(SecA, <<"A">>,
                     MembersOfGroups(pa[1], pb[1], Group("a", na), Group("b", nb))),
                  SidebarSection(SecB, <<"B">>,
                     MembersOfGroups(pa[2], pb[2], Group("a", na), Group("b", nb))) >>
    /\ plannedMoves = <<>>
    /\ sidebarMoves = <<>>
    /\ moveIdx = 0
    /\ successfulMoves = <<>>
    /\ errors = <<>>
    /\ apiLog = <<>>
    /\ fatal = NoFatal
    /\ proposedRules = <<>>
    /\ returned = <<>>

SpecSuggest == InitSuggest /\ [][NextPlan]_vars

(***************************************************************************)
(* Claims about the planner (checked under SpecPlan)                       *)
(***************************************************************************)

\* The rules that apply to a channel name, and the Moves of a channel.
Applying(name) == { i \in DOMAIN sidebarRules : applies(sidebarRules[i], name) }
MovesOf(id) == { i \in DOMAIN plannedMoves : plannedMoves[i].channelId = id }

\* The channel is a member of the section with this id in the snapshot.
MemberOf(id, sectionId) ==
    \E k \in DOMAIN sidebarSections :
        /\ sidebarSections[k].id = sectionId
        /\ \E m \in DOMAIN sidebarSections[k].channelIds :
              sidebarSections[k].channelIds[m] = id

\* C1: the planner uses the destination of the lowest-index rule that
\* applies to the channel's name and no later one; a channel no rule
\* applies to gets no Move.
C1_FirstMatch ==
    pc \in {"organised", "dryRun"} =>
        \A c \in DOMAIN channels :
            LET A == Applying(channels[c].name)
                ms == MovesOf(channels[c].id)
            IN  IF A = {}
                THEN ms = {}
                ELSE LET first == CHOOSE i \in A : \A j \in A : i <= j
                         dest == sidebarRules[first].sidebarSectionId
                     IN  /\ \A i \in ms : plannedMoves[i].toSidebarSectionId = dest
                         /\ ~MemberOf(channels[c].id, dest) => ms # {}

\* C1 witness: two rules with different destinations both apply to the
\* first channel, which was planned into the first rule's section.
C1_Witness ==
    /\ pc = "dryRun"
    /\ Len(sidebarRules) = 2
    /\ Applying(channels[1].name) = {1, 2}
    /\ sidebarRules[1].sidebarSectionId # sidebarRules[2].sidebarSectionId
    /\ \E i \in MovesOf(channels[1].id) :
          plannedMoves[i].toSidebarSectionId = sidebarRules[1].sidebarSectionId

\* The lowest-index rule that applies to a channel name (0 if none).
FirstApplying(name) ==
    IF Applying(name) = {} THEN 0
    ELSE CHOOSE i \in Applying(name) : \A j \in Applying(name) : i <= j

\* The sections of the snapshot the channel is a member of.
SectionsOf(id) == { k \in DOMAIN sidebarSections : MemberOf(id, sidebarSections[k].id) }

\* C15: a channel that the destination bucket of its first matching rule
\* already contains gets no Move, also when it is a member of other
\* buckets as well.
C15_AlreadyOrganized ==
    pc \in {"organised", "dryRun"} =>
        \A c \in DOMAIN channels :
            LET r == FirstApplying(channels[c].name)
            IN  ( /\ r # 0
                  /\ MemberOf(channels[c].id, sidebarRules[r].sidebarSectionId) )
                => MovesOf(channels[c].id) = {}

\* C15 witness: the first channel is a member of both sections, the
\* second one listed being the destination of its first matching rule; it
\* got no Move while the second channel did.
C15_Witness ==
    /\ pc = "dryRun"
    /\ SectionsOf(channels[1].id) = {1, 2}
    /\ FirstApplying(channels[1].name) # 0
    /\ sidebarRules[FirstApplying(channels[1].name)].sidebarSectionId = SecB
    /\ MovesOf(channels[1].id) = {}
    /\ MovesOf(channels[2].id) # {}

C17_MuteOnly ==
    pc \in {"organised", "dryRun"} =>
        \A c \in DOMAIN channels :
            LET r == FirstApplying(channels[c].name)
            IN  (r # 0 /\ sidebarRules[r].sidebarSectionId = <<>>)
                => MovesOf(channels[c].id) = {}

\* C17 witness: a mute-only rule comes first, a rule into section A
\* second; both apply to the first channel, which is in no section and got
\* no Move.
C17_Witness ==
    /\ pc = "organised"
    /\ Len(sidebarRules) = 2
    /\ sidebarRules[1].sidebarSectionId = <<>>
    /\ sidebarRules[1].mute
    /\ sidebarRules[2].sidebarSectionId = SecA
    /\ Applying(channels[1].name) = {1, 2}
    /\ SectionsOf(channels[1].id) = {}
    /\ MovesOf(channels[1].id) = {}

\* The matching laws, character by character.
PrefixLaw(n, v) ==
    /\ Len(v) <= Len(n)
    /\ \A i \in 1..Len(v) : n[i] = v[i]
SuffixLaw(n, v) ==
    /\ Len(v) <= Len(n)
    /\ \A i \in 1..Len(v) : n[Len(n) - Len(v) + i] = v[i]
KeywordLaw(n, v) ==
    \E off \in 0..(Len(n) - Len(v)) : \A i \in 1..Len(v) : n[off + i] = v[i]
ExactLaw(n, v) ==
    /\ Len(n) = Len(v)
    /\ \A i \in 1..Len(v) : n[i] = v[i]

MatchLaw(type, n, v) ==
    CASE type = "prefix" -> PrefixLaw(n, v)
      [] type = "suffix" -> SuffixLaw(n, v)
      [] type = "keyword" -> KeywordLaw(n, v)
      [] type = "exact" -> ExactLaw(n, v)

\* C19: a rule with value v applies to a name n exactly when n starts with
\* v (prefix), ends with v (suffix), contains v (keyword, so the empty
\* keyword applies to every name) or equals v (exact), character by
\* character and case-sensitively; it applies to v itself.  The channel of
\* the run, in no section, is planned exactly when the law holds.
C19_MatchingLaws ==
    (pc \in {"organised", "dryRun"} /\ sidebarRules[1].value # Undefined) =>
        LET rule == sidebarRules[1]
            n == channels[1].name
        IN  /\ applies(rule, n) <=> MatchLaw(rule.type, n, rule.value)
            /\ (plannedMoves # <<>>) <=> MatchLaw(rule.type, n, rule.value)
            /\ applies(rule, rule.value)
            /\ (rule.type = "keyword" /\ rule.value = <<>>) => plannedMoves # <<>>

\* C19 witness: the suffix "a" matched the name "Aa" and the channel was
\* planned.
C19_Witness ==
    /\ pc = "dryRun"
    /\ sidebarRules[1].type = "suffix"
    /\ sidebarRules[1].value = <<"a">>
    /\ channels[1].name = <<"A", "a">>
    /\ Len(plannedMoves) = 1

\* C20: an entry without its type-specific field constructs a rule whose
\* value is undefined, and that rule causes no Move, whatever the
\* channel's name is.
C20_DegenerateRule ==
    sidebarRulesRaw # <<>> /\ sidebarRulesRaw[1].value = Undefined =>
        /\ pc \notin {"exit1", "failed"}
        /\ pc \in {"organised", "dryRun"} =>
              /\ sidebarRules[1].value = Undefined
              /\ plannedMoves = <<>>

(***************************************************************************)
(* Claims about whole runs (checked under Spec)                            *)
(***************************************************************************)

\* Position of Move i among the planned Moves with the same destination.
Rank(i) ==
    Cardinality({ j \in 1..i :
        plannedMoves[j].toSidebarSectionId = plannedMoves[i].toSidebarSectionId })

\* Free slots, in the snapshot, of the bucket with this id and of its
\* overflow buckets together.
RECURSIVE GroupFreeUpTo(_, _)
GroupFreeUpTo(base, k) ==
    IF k = 0 THEN 0
    ELSE GroupFreeUpTo(base, k - 1)
           + (IF \/ sidebarSections[k].name = base
                 \/ OverflowNumber(base, sidebarSections[k].name) >= 0
              THEN FreeSlots(k) ELSE 0)

GroupFree(id) ==
    LET p == CHOOSE k \in DOMAIN sidebarSections : sidebarSections[k].id = id
    IN  GroupFreeUpTo(sidebarSections[p].name, Len(sidebarSections))

\* The relocation calls made for Move i so far.
CallsOf(i) ==
    { k \in DOMAIN apiLog : apiLog[k].op = "call" /\ apiLog[k].move = i }

\* C4: a Move for which neither its bucket nor an overflow bucket has a
\* slot left keeps its destination and its place in the list, and a run
\* that executes the list to the end has made the relocation call for it.
C4_FailLoud ==
    pc \in {"organised", "dryRun", "execute", "sleeping", "admitted",
            "inflight", "done"} =>
        /\ Len(sidebarMoves) = Len(plannedMoves)
        /\ \A i \in DOMAIN plannedMoves :
              /\ sidebarMoves[i].channelId = plannedMoves[i].channelId
              /\ Rank(i) > GroupFree(plannedMoves[i].toSidebarSectionId)
                   => /\ sidebarMoves[i] = plannedMoves[i]
                      /\ pc = "done"
                           => \E k \in CallsOf(i) : apiLog[k].args = plannedMoves[i]

\* C4 witness: a finished run made the relocation call for a Move into a
\* bucket that was full, as was its overflow bucket.
C4_Witness ==
    /\ pc = "done"
    /\ \E i \in DOMAIN plannedMoves :
          /\ plannedMoves[i].toSidebarSectionId = SecA
          /\ GroupFree(SecA) = 0
          /\ sidebarMoves[i].toSidebarSectionId = SecA
          /\ CallsOf(i) # {}

\* C10 as stated: in a --write run every planned Move is attempted exactly
\* once.
C10_EveryMoveOnce ==
    (writeChanges /\ pc \in {"done", "failed"}) =>
        \A i \in DOMAIN sidebarMoves : Cardinality(CallsOf(i)) = 1

\* C10 amended: the executor's events are admission, call and answer of
\* Move 1, then of Move 2, and so on: each Move at most once, in list order,
\* one at a time, each call right after its own admission; a run that
\* reaches the final report has attempted every Move exactly once.
C10_ExecutorOrder ==
    /\ Len(apiLog) <= 3 * Len(sidebarMoves)
    /\ \A k \in DOMAIN apiLog :
          LET i == ((k - 1) \div 3) + 1
              phase == (k - 1) % 3
          IN  /\ apiLog[k].move = i
              /\ apiLog[k].args = sidebarMoves[i]
              /\ phase = 0 => apiLog[k].op = "admit"
              /\ phase = 1 => apiLog[k].op = "call"
              /\ phase = 2 => \/ apiLog[k].op = "result"
                              \/ apiLog[k].op = "raise" /\ k = Len(apiLog)
    /\ Len(admitLog) = Cardinality({ k \in DOMAIN apiLog : apiLog[k].op = "admit" })
    /\ pc = "done" =>
          /\ Len(apiLog) = 3 * Len(sidebarMoves)
          /\ \A i \in DOMAIN sidebarMoves : Cardinality(CallsOf(i)) = 1

\* C10 witness: a run of three Moves finished, the third Move having
\* waited for the limiter, one Move having failed.
C10_Witness ==
    /\ pc = "done"
    /\ Len(sidebarMoves) = 3
    /\ Len(apiLog) = 9
    /\ Len(admitLog) = 3
    /\ admitLog[3] >= admitLog[1] + intervalMs
    /\ Len(errors) = 1

\* The entries of the success list and of the failure list for Move i.
InSuccess(i) ==
    { k \in DOMAIN successfulMoves : successfulMoves[k] = sidebarMoves[i] }
InFailure(i) ==
    { k \in DOMAIN errors : errors[k].move = sidebarMoves[i] }

\* C11: a Move answered with ok = false is recorded in the failure list
\* with its result and the loop goes on: every answered Move is in exactly
\* one of the two lists, and when the loop ends every Move was attempted
\* and successes + failures = planned Moves.
C11_FailuresDoNotAbort ==
    /\ \A k \in DOMAIN errors :
          /\ errors[k].result \in MoveResults
          /\ ~errors[k].result.ok
    /\ \A i \in DOMAIN sidebarMoves :
          LET answered == \E k \in DOMAIN apiLog :
                            apiLog[k].op = "result" /\ apiLog[k].move = i
          IN  Cardinality(InSuccess(i)) + Cardinality(InFailure(i))
                = IF answered THEN 1 ELSE 0
    /\ pc = "done" =>
          /\ \A i \in DOMAIN sidebarMoves : CallsOf(i) # {}
          /\ Len(successfulMoves) + Len(errors) = Len(plannedMoves)

\* C11 witness: the first of three Moves failed, the other two were
\* attempted after it and succeeded.
C11_Witness ==
    /\ pc = "done"
    /\ Len(sidebarMoves) = 3
    /\ InFailure(1) = {1}
    /\ errors[1].result.error = "not_allowed"
    /\ InSuccess(2) = {1}
    /\ InSuccess(3) = {2}

\* Positions of main() from which no statement of main() follows.
Halted == {"exit1", "failed", "suggested", "organised", "dryRun", "done"}

\* C12: in a run started without --write no relocation call is ever made
\* and the limiter is never asked; once the Moves are calculated the run
\* has ended, after the plan report when there is something to move.
C12_DryRun ==
    ~writeChanges =>
        /\ apiLog = <<>>
        /\ admitLog = <<>>
        /\ successfulMoves = <<>> /\ errors = <<>>
        /\ pc \in {"start", "loaded"} \cup (Halted \ {"done"})
        /\ plannedMoves # <<>> => pc = "dryRun"

\* C12 witness: a run without --write planned three Moves, one of them
\* redirected to an overflow section, and ended after the plan report.
C12_Witness ==
    /\ ~writeChanges
    /\ pc = "dryRun"
    /\ Len(sidebarMoves) = 3
    /\ \E i \in DOMAIN sidebarMoves : sidebarMoves[i].toSidebarSectionId = SecA2
    /\ apiLog = <<>>

\* The entry names a section that is no id and no name of the snapshot.
Unresolved(json) ==
    /\ ~(json.sidebar_section = Undefined /\ json.mute)
    /\ \A k \in DOMAIN sidebarSections :
          /\ sidebarSections[k].id # json.sidebar_section
          /\ sidebarSections[k].name # json.sidebar_section

\* The entry's type is none of the supported ones.
UnknownType(json) == json.type \notin {"prefix", "suffix", "keyword", "exact"}

\* C13: when an entry of the rules file names a section that resolves to
\* no bucket, or has an unsupported type, the run halts when it loads the
\* rules, having printed the offending section or the error 'Unknown rule
\* type: <type>', and no relocation call is made.
C13_ConfigErrorsFatal ==
    ( /\ pc # "start"
      /\ \E i \in DOMAIN sidebarRulesRaw :
            Unresolved(sidebarRulesRaw[i]) \/ UnknownType(sidebarRulesRaw[i]) )
    => /\ pc \in {"exit1", "failed"}
       /\ apiLog = <<>>
       /\ admitLog = <<>>
       /\ sidebarMoves = <<>>
       /\ pc = "exit1" =>
             /\ fatal.message = "Couldn't find sidebar section for "
             /\ \E i \in DOMAIN sidebarRulesRaw :
                   /\ Unresolved(sidebarRulesRaw[i])
                   /\ fatal.sidebar_section = sidebarRulesRaw[i].sidebar_section
       /\ pc = "failed" =>
             /\ fatal.message = "Unknown rule type: "
             /\ \E i \in DOMAIN sidebarRulesRaw :
                   /\ UnknownType(sidebarRulesRaw[i])
                   /\ ~Unresolved(sidebarRulesRaw[i])
                   /\ fatal.type = sidebarRulesRaw[i].type

\* C13 witness: a --write run whose first entry was in order halted on a
\* second entry of type "regex".
C13_Witness ==
    /\ writeChanges
    /\ pc = "failed"
    /\ Len(sidebarRulesRaw) = 2
    /\ sidebarRulesRaw[1].type = "prefix"
    /\ ~Unresolved(sidebarRulesRaw[1])
    /\ sidebarRulesRaw[2].type = "regex"
    /\ fatal.type = "regex"
    /\ apiLog = <<>>

\* The positions of main() at which the Moves have been calculated.
Planned == {"organised", "dryRun", "execute", "sleeping", "admitted",
            "inflight", "done", "failed"}

\* The snapshot after the Moves ms have been applied: each channel removed
\* from its from-bucket and added to its to-bucket.
ApplyMoves(sections, ms) ==
    [k \in DOMAIN sections |->
        LET left == { ms[i].channelId : i \in { j \in DOMAIN ms :
                          ms[j].fromSidebarSectionId = sections[k].id } }
            kept == SelectSeq(sections[k].channelIds, LAMBDA c : c \notin left)
            came == SelectSeq(ms, LAMBDA m : m.toSidebarSectionId = sections[k].id)
        IN  [sections[k] EXCEPT
                !.channelIds = kept \o [i \in DOMAIN came |-> came[i].channelId]]]

\* C14: planning again on the same snapshot gives the same Moves, and
\* planning on the snapshot to which all Moves of the run (as distributed)
\* have been applied gives no Move.
C14_PlannerIdempotent ==
    (pc \in Planned /\ sidebarRules # <<>>) =>
        /\ CalculateMoves(channels, sidebarRules, sidebarSections) = plannedMoves
        /\ CalculateMoves(channels, sidebarRules,
                          ApplyMoves(sidebarSections, sidebarMoves)) = <<>>

\* C18: a relocation call answered with Slack's rate-limit error is not
\* recorded as a per-move failure (the run backs off and resumes the Move).
C18_RateLimitRecoverable ==
    \A k \in DOMAIN errors : errors[k].result.error # "ratelimited"

(***************************************************************************)
(* Claims about the miner (checked under SpecMine)                         *)
(***************************************************************************)

\* The separators of name that end one of its counted leading runs: the
\* last segment is cut off and at most four segments are kept, so these are
\* the separators with fewer than four separators before them.
RunEnds(name) ==
    { p \in DOMAIN name :
        /\ name[p] = "-"
        /\ Cardinality({ q \in 1..(p - 1) : name[q] = "-" }) < 4 }

\* The leading runs of name, as strings.
LeadingRuns(name) == { SubSeq(name, 1, p - 1) : p \in RunEnds(name) }

\* The keys of a map, and whether no key occurs twice.
KeysOf(map) == { map[i].key : i \in DOMAIN map }
KeysDistinct(map) == Cardinality(KeysOf(map)) = Len(map)

\* C23: getPrefixes(names) holds exactly the leading runs of the names
\* (last segment dropped, at most four segments kept, joined by '-'), each
\* once, counted by the number of names it is a leading run of; a name
\* without '-' contributes nothing and an empty segment counts.
C23_GetPrefixes ==
    pc = "prefixes" =>
        /\ KeysOf(returned) = UNION { LeadingRuns(ChannelNames[i]) : i \in DOMAIN ChannelNames }
        /\ KeysDistinct(returned)
        /\ \A e \in DOMAIN returned :
              returned[e].value =
                Cardinality({ i \in DOMAIN ChannelNames :
                                returned[e].key \in LeadingRuns(ChannelNames[i]) })

\* A name of six segments gave four keys, one of them counted for two
\* names, and one key has an empty segment at its end.
C23_Witness ==
    /\ pc = "prefixes"
    /\ Len(channels) = 2
    /\ Cardinality({ q \in DOMAIN ChannelNames[1] : ChannelNames[1][q] = "-" }) = 5
    /\ Len(returned) = 4
    /\ \E e \in DOMAIN returned : returned[e].value = 2
    /\ \E e \in DOMAIN returned :
          /\ returned[e].key # <<>>
          /\ returned[e].key[Len(returned[e].key)] = "-"

\* The separators of name that start one of its counted trailing runs.
RunStarts(name) ==
    { p \in DOMAIN name :
        /\ name[p] = "-"
        /\ Cardinality({ q \in (p + 1)..Len(name) : name[q] = "-" }) < 4 }

\* The trailing runs of name, as strings.
TrailingRuns(name) == { SubSeq(name, p + 1, Len(name)) : p \in RunStarts(name) }

\* getPrefixes of the names with their segments reversed.
MirroredPrefixes ==
    getPrefixes([i \in DOMAIN ChannelNames |-> ReverseParts(ChannelNames[i])])

\* C24: getSuffixes(names) has exactly the keys of getPrefixes of the
\* segment-reversed names, each key segment-reversed back, with the same
\* counts, and no two keys collide when reversed back; these are the
\* trailing runs of the names.
C24_GetSuffixesMirror ==
    pc = "suffixes" =>
        /\ LET mirrored == MirroredPrefixes
           IN  /\ Len(returned) = Len(mirrored)
               /\ \A i \in DOMAIN mirrored :
                     \E e \in DOMAIN returned :
                        /\ returned[e].key = ReverseParts(mirrored[i].key)
                        /\ returned[e].value = mirrored[i].value
        /\ KeysDistinct(returned)
        /\ KeysOf(returned) = UNION { TrailingRuns(ChannelNames[i]) : i \in DOMAIN ChannelNames }

\* A suffix key that reads differently with its segments reversed, and a
\* key counted for two names.
C24_Witness ==
    /\ pc = "suffixes"
    /\ Len(channels) = 2
    /\ \E e \in DOMAIN returned : ReverseParts(returned[e].key) # returned[e].key
    /\ \E e \in DOMAIN returned : returned[e].value = 2

(***************************************************************************)
(* Claims about the rule suggestions (checked under SpecSuggest)           *)
(***************************************************************************)

\* The characters of the patterns in code-unit order.
CodeUnits ==
    <<"-", "0", "1", "2", "3", "4", "5", "6", "7", "8", "9", "a", "b", "z">>

CodeUnit(ch) == CHOOSE k \in DOMAIN CodeUnits : CodeUnits[k] = ch

\* p sorts before q or is equal to it.
RECURSIVE PatternAtMost(_, _)
PatternAtMost(p, q) ==
    IF p = <<>> THEN TRUE
    ELSE IF q = <<>> THEN FALSE
    ELSE IF CodeUnit(p[1]) # CodeUnit(q[1]) THEN CodeUnit(p[1]) < CodeUnit(q[1])
    ELSE PatternAtMost(Tail(p), Tail(q))

\* C25: the suggestions are emitted in ascending order of destination
\* name, and within one destination in ascending order of the pattern.
C25_SuggestionsSorted ==
    pc = "suggested" =>
        \A i \in DOMAIN proposedRules : \A j \in DOMAIN proposedRules :
            i < j =>
              /\ LocaleCompare(proposedRules[i].sidebar_section,
                               proposedRules[j].sidebar_section) <= 0
              /\ proposedRules[i].sidebar_section = proposedRules[j].sidebar_section
                    => PatternAtMost(proposedRules[i].pattern, proposedRules[j].pattern)

(***************************************************************************)
(* Claims about the overflow resolver (checked under SpecOverflow)         *)
(***************************************************************************)

\* The part of name between "<baseName> (" and the closing ")".
SuffixDigits(baseName, name) == SubSeq(name, Len(baseName) + 3, Len(name) - 1)

\* name is baseName, one space, '(', one or more decimal digits, ')'.
IsOverflowName(baseName, name) ==
    /\ SuffixDigits(baseName, name) # <<>>
    /\ \A i \in DOMAIN SuffixDigits(baseName, name) :
          SuffixDigits(baseName, name)[i] \in { DigitChars[k] : k \in DOMAIN DigitChars }
    /\ name = baseName \o <<" ", "(">> \o SuffixDigits(baseName, name) \o <<")">>

\* A decimal power, and the value of a string of digits as a weighted sum.
RECURSIVE PowerOfTen(_)
PowerOfTen(n) == IF n = 0 THEN 1 ELSE 10 * PowerOfTen(n - 1)

RECURSIVE WeightedSum(_, _)
WeightedSum(ds, i) ==
    IF i > Len(ds) THEN 0
    ELSE (CHOOSE k \in 0..9 : DigitChars[k + 1] = ds[i]) * PowerOfTen(Len(ds) - i)
           + WeightedSum(ds, i + 1)

SuffixValue(baseName, name) == WeightedSum(SuffixDigits(baseName, name), 1)

\* C21: findOverflowSections(baseName, buckets) returns exactly the buckets
\* named baseName, space, '(', digits, ')', each once, in ascending order
\* of the numeric value of the suffix.
C21_OverflowSections ==
    pc = "overflow" =>
        LET found == returned.sections
            baseName == returned.baseName
        IN  /\ { found[i].id : i \in DOMAIN found }
                  = { sidebarSections[k].id : k \in
                        { n \in DOMAIN sidebarSections :
                            IsOverflowName(baseName, sidebarSections[n].name) } }
            /\ \A i \in DOMAIN found : \E k \in DOMAIN sidebarSections :
                  found[i] = sidebarSections[k]
            /\ Cardinality({ found[i].id : i \in DOMAIN found }) = Len(found)
            /\ \A i \in DOMAIN found : \A j \in DOMAIN found :
                  i < j => SuffixValue(baseName, found[i].name)
                              <= SuffixValue(baseName, found[j].name)

\* The siblings numbered 5, 2 and 10, in this order, came back as 2, 5, 10.
C21_Witness ==
    /\ pc = "overflow"
    /\ returned.baseName = <<"T">>
    /\ Len(sidebarSections) = 3
    /\ sidebarSections[1].name = <<"T", " ", "(", "5", ")">>
    /\ sidebarSections[2].name = <<"T", " ", "(", "2", ")">>
    /\ sidebarSections[3].name = <<"T", " ", "(", "1", "0", ")">>
    /\ returned.sections = << sidebarSections[2], sidebarSections[1], sidebarSections[3] >>

(***************************************************************************)
(* Claims about the capacity of a bucket (checked under SpecDist)          *)
(***************************************************************************)

\* C22: for a bucket with n members availableCapacity() is max(0, 500 - n):
\* never negative, 500 for an empty bucket, 0 at or above 500 members.
C22_AvailableCapacity ==
    pc = "measured" =>
        \A k \in DOMAIN sidebarSections :
            LET n == Len(sidebarSections[k].channelIds)
            IN  /\ returned[k] >= 0
                /\ n < 500 => returned[k] + n = 500
                /\ n >= 500 => returned[k] = 0
                /\ n = 0 => returned[k] = 500

\* An empty bucket, a bucket at the limit and a bucket above it were
\* measured: 500, 0 and 0.
C22_Witness ==
    /\ pc = "measured"
    /\ Len(sidebarSections) = 3
    /\ Len(sidebarSections[1].channelIds) = 0
    /\ Len(sidebarSections[2].channelIds) = 500
    /\ Len(sidebarSections[3].channelIds) = 510
    /\ returned = <<500, 0, 0>>

\* C26: the distributor changes nothing but the toSidebarSectionId of
\* Moves: the number and order of the Moves, the channelId and the
\* fromSidebarSectionId of each, and every bucket of the snapshot are the
\* same after the call as before.
C26_DistributorFrame ==
    [][pc' = "distributed" =>
          /\ sidebarSections' = sidebarSections
          /\ Len(sidebarMoves') = Len(sidebarMoves)
          /\ \A i \in DOMAIN sidebarMoves :
                /\ sidebarMoves'[i].channelId = sidebarMoves[i].channelId
                /\ sidebarMoves'[i].fromSidebarSectionId
                      = sidebarMoves[i].fromSidebarSectionId
                /\ DOMAIN sidebarMoves'[i] = DOMAIN sidebarMoves[i]]_vars

\* A batch of three Moves, one of them coming from a bucket, was spread
\* over the candidates and a Move from a bucket was sent elsewhere.
C26_Witness ==
    /\ pc = "distributed"
    /\ Len(sidebarMoves) = 3
    /\ \E i \in DOMAIN sidebarMoves :
          /\ plannedMoves[i].fromSidebarSectionId # Null
          /\ sidebarMoves[i].toSidebarSectionId # plannedMoves[i].toSidebarSectionId
          /\ sidebarMoves[i].fromSidebarSectionId = plannedMoves[i].fromSidebarSectionId

(***************************************************************************)
(* Claims about a rejected relocation request (checked under Spec)         *)
(***************************************************************************)

\* The relocation calls made for channel channelId.
CallsFor(channelId) ==
    { e \in DOMAIN apiLog :
        apiLog[e].op = "call" /\ apiLog[e].args.channelId = channelId }

\* A rejected request is the last thing the run did: the run has ended at
\* that Move, nothing was attempted for a later Move, and every Move that
\* succeeded has had its one call and no other.
StoppedAtRaise ==
    \A e \in DOMAIN apiLog :
        apiLog[e].op = "raise" =>
            /\ e = Len(apiLog)
            /\ pc = "failed"
            /\ moveIdx = apiLog[e].move
            /\ \A f \in DOMAIN apiLog : apiLog[f].move <= moveIdx
            /\ \A i \in DOMAIN successfulMoves :
                  /\ Cardinality(CallsFor(successfulMoves[i].channelId)) = 1
                  /\ \A f \in CallsFor(successfulMoves[i].channelId) :
                        apiLog[f].args = successfulMoves[i]

\* C27: when a relocation call fails by raising, the executor stops and
\* the process terminates: no later Move is attempted and the Moves
\* already applied stay applied, no compensating call is issued.
C27_NoRollback ==
    /\ []StoppedAtRaise
    /\ [][pc = "failed" => UNCHANGED vars]_vars

\* The first Move was applied, the request for the second was rejected,
\* and a third Move was never attempted.
C27_Witness ==
    /\ pc = "failed"
    /\ moveIdx = 2
    /\ Len(sidebarMoves) = 3
    /\ Len(successfulMoves) = 1
    /\ apiLog[Len(apiLog)].op = "raise"

(***************************************************************************)
(* Further claims about the RateLimiter (checked under SpecRL, SpecRLFair) *)
(***************************************************************************)

\* C28: for limit >= 1 the timestamp list never holds more than `limit`
\* entries and is in non-decreasing order, so its first entry is the oldest.
C28_TimestampsBounded ==
    /\ limit >= 1
    /\ Len(timestamps) <= limit
    /\ \A i \in DOMAIN timestamps : \A j \in DOMAIN timestamps :
          i < j => timestamps[i] <= timestamps[j]
    /\ \A i \in DOMAIN timestamps : timestamps[1] <= timestamps[i]

\* The list is full with two different timestamps after more admissions
\* than the limit: an expired entry was dropped and a new one pushed.
C28_Witness ==
    /\ limit = 2
    /\ Len(timestamps) = limit
    /\ timestamps[1] < timestamps[2]
    /\ Len(admitLog) > limit
    /\ admitLog[1] < timestamps[1]

\* No evaluation of wait() fell through without sleeping and without
\* admitting.
NeverRejected == \A c \in Callers : waiter[c].state # "rejected"

\* A caller that is suspended (again) sleeps for a strictly positive delay
\* of at most one interval.
PositiveFiniteDelay ==
    \A c \in Callers :
        (waiter'[c].state = "sleeping" /\ waiter'[c].wakeAt # waiter[c].wakeAt)
            => /\ waiter'[c].wakeAt > now
               /\ waiter'[c].wakeAt <= now + intervalMs

\* C29: with limit >= 1 every wait() call is eventually admitted as time
\* advances; each evaluation admits the caller or suspends it for a
\* strictly positive, finite delay, and no suspended caller waits forever.
C29_EventuallyAdmitted ==
    /\ []NeverRejected
    /\ [][PositiveFiniteDelay]_vars
    /\ \A c \in Callers :
          (waiter[c].state = "sleeping") ~> (waiter[c].state = "admitted")

\* A caller was admitted after its first sleep had ended without an
\* admission: it was suspended a second time.
C29_Witness ==
    \E c \in Callers :
        /\ waiter[c].state = "admitted"
        /\ waiter[c].firstWake # None
        /\ waiter[c].admittedAt > waiter[c].firstWake

(***************************************************************************)
(* Claims about the planned Moves (checked under SpecOrg)                  *)
(***************************************************************************)

\* The sections of the snapshot that hold channelId.
Holding(channelId) ==
    { k \in DOMAIN sidebarSections :
        channelId \in { sidebarSections[k].channelIds[n] :
                          n \in DOMAIN sidebarSections[k].channelIds } }

\* C30: the planner emits at most one Move per channel id; the Move's
\* fromSidebarSectionId is null when the channel is in no bucket and
\* otherwise the id of a bucket that holds it, its toSidebarSectionId is
\* the id of a bucket that does not hold it, and the two differ.
C30_MovesWellFormed ==
    pc \in {"organised", "dryRun"} =>
        /\ \A i \in DOMAIN plannedMoves : \A j \in DOMAIN plannedMoves :
              plannedMoves[i].channelId = plannedMoves[j].channelId => i = j
        /\ \A i \in DOMAIN plannedMoves :
              LET m == plannedMoves[i]
              IN  /\ \E c \in DOMAIN channels : channels[c].id = m.channelId
                  /\ IF Holding(m.channelId) = {}
                     THEN m.fromSidebarSectionId = <<>>
                     ELSE \E k \in Holding(m.channelId) :
                             sidebarSections[k].id = m.fromSidebarSectionId
                  /\ \E k \in DOMAIN sidebarSections \ Holding(m.channelId) :
                        sidebarSections[k].id = m.toSidebarSectionId
                  /\ m.fromSidebarSectionId # m.toSidebarSectionId

\* Two Moves were planned: one for a channel that is in no bucket, one for
\* a channel that is taken out of the bucket that holds it.
C30_Witness ==
    /\ pc = "dryRun"
    /\ Len(plannedMoves) = 2
    /\ \E i \in DOMAIN plannedMoves : plannedMoves[i].fromSidebarSectionId = <<>>
    /\ \E i \in DOMAIN plannedMoves :
          /\ plannedMoves[i].fromSidebarSectionId # <<>>
          /\ Holding(plannedMoves[i].channelId) # {}

====
